---------------------------- MODULE Spec2Model ----------------------------
(***************************************************************************)
(* qe-tools: retrieval and extraction of CI artifacts stored as OCI        *)
(* images (package pkg/oci).                                               *)
(*                                                                         *)
(* Three state machines share this module, one per layer of the program:   *)
(*   SpecFetch  Controller.FetchTags paging through the tag API            *)
(*   Spec       Controller.ProcessRepositories and its repository tasks    *)
(*   SpecBlobs  Controller.processBlobs and its HandleBlob tasks           *)
(* Each specification leaves the variables of the other layers untouched.  *)
(***************************************************************************)
EXTENDS Integers, Sequences, FiniteSets, TLC

VARIABLES
    \* ---- FetchTags (one call) ----
    frepo,      \* the repo argument
    fsrv,       \* what the tag API serves for frepo: one response per page
    fpage,      \* local variable page
    ftags,      \* local variable tags
    fpc,        \* "loop" while in the for loop, "returned" afterwards
    fret,       \* the returned pair [tags, err]
    freqs,      \* the URLs requested so far, in order
    \* ---- ProcessRepositories (one call) ----
    repositories, \* the repositories argument
    since,      \* the since argument
    mpc,        \* the caller: "loop" in the for loop or in wg.Wait, "returned"
    spawned,    \* how many iterations of the for loop have run
    wg,         \* the WaitGroup counter
    sem,        \* how many values the channel sem holds
    errorsChan, \* the buffer of the channel errorsChan
    errors,     \* the returned slice
    rpc,        \* per repository task: where its goroutine stands
    rtags,      \* per task: the local variable tags of processRepository
    ridx,       \* per task: the index of the range loop over tags
    rerr,       \* per task: the error processRepository returned
    pulled,     \* per task: the ProcessTag calls made, in order
    \* ---- processBlobs (one call) ----
    blobDir,    \* the entries of c.BlobDir, as os.ReadDir lists them
    bmain,      \* processBlobs: "loop" in the for loop or in wg.Wait, "returned"
    bspawned,   \* how many entries the for loop has gone through
    bwg,        \* the WaitGroup counter
    bsem,       \* how many values the channel sem holds
    berrors,    \* the buffer of the channel errors
    blog,       \* the errors logged by the range loop over errors
    bpc,        \* per entry: where its HandleBlob goroutine stands
    berr,       \* per entry: the error processBlob returned
    gpc,        \* per entry: where the goroutine started by extractBlob stands
    extractErr, \* per entry: the buffer of the channel extractErr
    btimedout,  \* the entries whose extraction deadline has expired
    \* ---- extractTarGz (two calls on one destination directory) ----
    xfs,        \* the destination directory: what is at each path
    xarch,      \* per call: the archive it reads
    xmode,      \* "again": the second call starts after the first has returned;
                \* "concurrent": the calls are two blobs of one processBlobs
    xpc,        \* per call: "open", "next", "create", "copy", "done"
    xidx,       \* per call: the index of the tar entry at hand
    xerr,       \* per call: the error returned
    xwritten,   \* per call: the paths of the files it has created
    xbefore,    \* the destination directory when the second call started
    \* ---- ArtifactScanner.processExtractedFiles (one call) ----
    stree,      \* the tree under artifactDirPath, in the order filepath.Walk visits it
    spatterns,  \* config.FileNameFilter
    sidx,       \* the index of the node filepath.Walk visits next
    smap,       \* FilesPathMap
    serr,       \* the error returned
    spc,        \* "walk" or "returned"
    \* ---- Controller.ProcessTag (the calls of one run on one store) ----
    tmode,      \* "repo": RunE with --repo; "repos": processRepository
    tcalls,     \* the ProcessTag calls of the run, in order
    tcred,      \* the state of the local credential store
    tidx,       \* the index of the call that runs
    tpc,        \* the step the call is at, or "done" when no call is left
    texpired,   \* the step at which the deadline of the call expired, or "no"
    tstore,     \* the blobs in c.BlobDir
    tdone,      \* the blobs processBlobs of the call has handled
    tattempts,  \* per call and blob: how often it was extracted, and the error
    tout,       \* the files extracted, as output directory and file
    tdirs,      \* the output directories created, as call and directory
    tlog,       \* the calls that returned: directory, error, deadline, last step
    \* ---- Controller.ExtractGzFile (one call) ----
    zpath,      \* gzFilePath
    zdest,      \* destDir
    zfs,        \* the file system: what is at each path that exists
    zbefore,    \* the file system before the call
    zname,      \* outputFileName
    zpc,        \* the statement the call is at, or "returned"
    zerr,       \* the error returned
    \* ---- downloadCmd.RunE (one run of the download command) ----
    dopts,      \* opts: the flags of the command
    dcache,     \* whether the directory opts.ociCache is there
    dcreated,   \* whether os.MkdirAll(opts.ociCache) has succeeded in this run
    dremove,    \* os.RemoveAll(opts.ociCache): "no" (not called), "ok", "failed"
    dpc,        \* the statement RunE is at, "blocked" or "returned"
    derr,       \* the error RunE returns
    \* ---- utils.ParseRepoAndTag ----
    pflag,         \* the repo flag given to ParseRepoAndTag, as its tokens
    pout,          \* what the call returned: [repo, tag, err]
    ppc,           \* "call", "returned"; "idle" when no call is made
    \* ---- FailedTestCasesReport.CollectTestFilesData (one call) ----
    cfpm,          \* fpm: the artifact at each path of the map
    cpc,           \* "junit", "logs" (the two loops), "returned"; "idle"
    cleft,         \* the paths the running loop has not yet come to
    cE2E,          \* f.E2ETestLog
    cCluster,      \* f.ClusterProvisionLog
    ctype          \* f.FailureType

fetchVars == <<frepo, fsrv, fpage, ftags, fpc, fret, freqs>>

repoVars == <<repositories, since, mpc, spawned, wg, sem, errorsChan, errors,
              rpc, rtags, ridx, rerr, pulled>>

blobVars == <<blobDir, bmain, bspawned, bwg, bsem, berrors, blog, bpc, berr,
              gpc, extractErr, btimedout>>

extractVars == <<xfs, xarch, xmode, xpc, xidx, xerr, xwritten, xbefore>>

scanVars == <<stree, spatterns, sidx, smap, serr, spc>>

tagVars == <<tmode, tcalls, tcred, tidx, tpc, texpired, tstore, tdone, tattempts, tout,
             tdirs, tlog>>

gzVars == <<zpath, zdest, zfs, zbefore, zname, zpc, zerr>>

downloadVars == <<dopts, dcache, dcreated, dremove, dpc, derr>>

parseVars == <<pflag, pout, ppc>>

collectVars == <<cfpm, cpc, cleft, cE2E, cCluster, ctype>>

vars == <<fetchVars, repoVars, blobVars, extractVars, scanVars, tagVars, gzVars, downloadVars, parseVars, collectVars>>

\* what the actions of one layer leave alone
notFetch == <<repoVars, blobVars, extractVars, scanVars, tagVars, gzVars, downloadVars, parseVars, collectVars>>
notRepos == <<fetchVars, blobVars, extractVars, scanVars, tagVars, gzVars, downloadVars, parseVars, collectVars>>
notBlobs == <<fetchVars, repoVars, extractVars, scanVars, tagVars, gzVars, downloadVars, parseVars, collectVars>>
notExtract == <<fetchVars, repoVars, blobVars, scanVars, tagVars, gzVars, downloadVars, parseVars, collectVars>>
notScan == <<fetchVars, repoVars, blobVars, extractVars, tagVars, gzVars, downloadVars, parseVars, collectVars>>
notTag == <<fetchVars, repoVars, blobVars, extractVars, scanVars, gzVars, downloadVars, parseVars, collectVars>>
notGz == <<fetchVars, repoVars, blobVars, extractVars, scanVars, tagVars, downloadVars, parseVars, collectVars>>
notDownload == <<fetchVars, repoVars, blobVars, extractVars, scanVars, tagVars, gzVars, parseVars, collectVars>>
notParse == <<fetchVars, repoVars, blobVars, extractVars, scanVars, tagVars, gzVars, downloadVars, collectVars>>
notCollect == <<fetchVars, repoVars, blobVars, extractVars, scanVars, tagVars, gzVars, downloadVars, parseVars>>

-----------------------------------------------------------------------------
(* Bounds of the model.                                                    *)

\* the tag API serves at most this many pages before its pages are empty
MaxPages == 3
\* a served page holds at most this many tags
MaxPerPage == 2
\* ProcessRepositories is given at most this many distinct repositories
MaxRepos == 3
\* the clock reading of the run, in days
NowT == 10
\* the blob directory holds at most this many entries (the directories that
\* over-subscribe the admission gate apart)
MaxBlobs == 2
\* at most this many extraction deadlines expire during one processBlobs call
MaxTimeouts == 1
\* an archive holds at most this many tar entries
MaxEntries == 2
\* config.FileNameFilter holds at most this many patterns
MaxPatterns == 2
\* one run makes at most this many ProcessTag calls on its store
MaxCalls == 2

-----------------------------------------------------------------------------
(* Values.                                                                 *)

\* An error is the chain of its messages, outermost first; each link is a
\* format with its argument.  The nil error is the empty chain.
NoErr == <<>>

\* fmt.Errorf(msg, arg)
Errorf(msg, arg) == << [msg |-> msg, arg |-> arg] >>

\* fmt.Errorf(msg, arg, err) with msg ending in %w: err wrapped
Wrapf(msg, arg, err) == << [msg |-> msg, arg |-> arg] >> \o err

\* a last_modified string: its layout and the instant it denotes
RFC1123(t) == [layout |-> "RFC1123", t |-> t]
RFC3339(t) == [layout |-> "RFC3339", t |-> t]

TagInfo(name, lastModified, size) ==
    [Name |-> name, LastModified |-> lastModified, Size |-> size]

quayAPITagsURL == "https://quay.io/api/v1/repository/"
perPageTags == 100
StatusOK == 200

\* http.Response.Status for the status codes the model serves
StatusText(code) ==
    CASE code = 200 -> "200 OK"
      [] code = 404 -> "404 Not Found"
      [] OTHER      -> "500 Internal Server Error"

-----------------------------------------------------------------------------
(* The tag API.  A response is what one GET produces: net is FALSE when    *)
(* the transport fails, code is the HTTP status, decodable tells whether   *)
(* the body is JSON of the expected shape, tags is the decoded tag list.   *)

OkPage(tags) == [net |-> TRUE, code |-> 200, decodable |-> TRUE, tags |-> tags]
NetFail      == [net |-> FALSE, code |-> 0, decodable |-> FALSE, tags |-> <<>>]
NotFound     == [net |-> TRUE, code |-> 404, decodable |-> FALSE, tags |-> <<>>]
BadBody      == [net |-> TRUE, code |-> 200, decodable |-> FALSE, tags |-> <<>>]

\* the reply to the request for url: past the served pages the API answers
\* with an empty tag list
ServerReply(srv, url) ==
    IF url.page \in 1..Len(srv) THEN srv[url.page] ELSE OkPage(<<>>)

-----------------------------------------------------------------------------
(* FetchTags.                                                              *)

buildTagsURL(repo, page) ==
    [scheme |-> "https", base |-> quayAPITagsURL, repo |-> repo,
     limit |-> perPageTags, page |-> page]

sendTagsRequest(srv, url) ==
    LET resp == ServerReply(srv, url) IN
    IF url.scheme \notin {"http", "https"}
    THEN [Tags |-> <<>>, err |-> Errorf("unsupported URL scheme %s in URL %s", url.scheme)]
    ELSE IF ~resp.net
    THEN [Tags |-> <<>>, err |-> Errorf("failed to fetch tags from URL %s: %w", url.repo)]
    ELSE IF resp.code # StatusOK
    THEN [Tags |-> <<>>, err |-> Errorf("failed to fetch tags: %s", StatusText(resp.code))]
    ELSE IF ~resp.decodable
    THEN [Tags |-> <<>>, err |-> Errorf("failed to decode tags response: %w", "")]
    ELSE [Tags |-> resp.tags, err |-> NoErr]

\* the mutant leaves out every other page
FetchIteration_SkipPage(srv, repo, page, tags) ==
    LET response == sendTagsRequest(srv, buildTagsURL(repo, page)) IN
    IF response.err # NoErr
    THEN [done |-> TRUE, page |-> page, tags |-> tags,
          ret |-> [tags |-> <<>>, err |-> response.err]]
    ELSE IF Len(response.Tags) = 0
    THEN [done |-> TRUE, page |-> page, tags |-> tags,
          ret |-> [tags |-> tags, err |-> NoErr]]
    ELSE [done |-> FALSE, page |-> page + 2, tags |-> tags \o response.Tags,
          ret |-> [tags |-> <<>>, err |-> NoErr]]

\* the mutant keeps the pages fetched so far when a request fails
FetchIteration_Partial(srv, repo, page, tags) ==
    LET response == sendTagsRequest(srv, buildTagsURL(repo, page)) IN
    IF response.err # NoErr
    THEN [done |-> TRUE, page |-> page, tags |-> tags,
          ret |-> [tags |-> tags, err |-> response.err]]
    ELSE IF Len(response.Tags) = 0
    THEN [done |-> TRUE, page |-> page, tags |-> tags,
          ret |-> [tags |-> tags, err |-> NoErr]]
    ELSE [done |-> FALSE, page |-> page + 1, tags |-> tags \o response.Tags,
          ret |-> [tags |-> <<>>, err |-> NoErr]]

\* the mutant prepends each page instead of appending it
FetchIteration_Prepend(srv, repo, page, tags) ==
    LET response == sendTagsRequest(srv, buildTagsURL(repo, page)) IN
    IF response.err # NoErr
    THEN [done |-> TRUE, page |-> page, tags |-> tags,
          ret |-> [tags |-> <<>>, err |-> response.err]]
    ELSE IF Len(response.Tags) = 0
    THEN [done |-> TRUE, page |-> page, tags |-> tags,
          ret |-> [tags |-> tags, err |-> NoErr]]
    ELSE [done |-> FALSE, page |-> page + 1, tags |-> response.Tags \o tags,
          ret |-> [tags |-> <<>>, err |-> NoErr]]

\* one iteration of the for loop of FetchTags with the locals page and tags:
\* the locals after it, whether the function has returned, and what it returned
FetchIteration(srv, repo, page, tags) ==
    LET response == sendTagsRequest(srv, buildTagsURL(repo, page)) IN
    IF response.err # NoErr
    THEN [done |-> TRUE, page |-> page, tags |-> tags,
          ret |-> [tags |-> <<>>, err |-> response.err]]
    ELSE IF Len(response.Tags) = 0
    THEN [done |-> TRUE, page |-> page, tags |-> tags,
          ret |-> [tags |-> tags, err |-> NoErr]]
    ELSE [done |-> FALSE, page |-> page + 1, tags |-> tags \o response.Tags,
          ret |-> [tags |-> <<>>, err |-> NoErr]]

\* the whole call: the loop run from the locals page and tags to its return
RECURSIVE FetchLoop(_, _, _, _)
FetchLoop(srv, repo, page, tags) ==
    LET it == FetchIteration(srv, repo, page, tags) IN
    IF it.done THEN it.ret ELSE FetchLoop(srv, repo, it.page, it.tags)

FetchTags(srv, repo) == FetchLoop(srv, repo, 1, <<>>)

-----------------------------------------------------------------------------
(* SpecFetch: one FetchTags call against every small tag API.              *)

\* the tags the API of SpecFetch serves
FetchTagPool ==
    { TagInfo("v2", RFC1123(9), 3), TagInfo("v1", RFC3339(4), 0) }

SeqsUpTo(S, n) == UNION { [1..k -> S] : k \in 0..n }

FetchResponses ==
    { OkPage(p) : p \in SeqsUpTo(FetchTagPool, MaxPerPage) }
        \cup { NetFail, NotFound, BadBody }

FetchIdle ==
    /\ frepo = "" /\ fsrv = <<>> /\ fpage = 0 /\ ftags = <<>>
    /\ fpc = "idle" /\ fret = [tags |-> <<>>, err |-> NoErr] /\ freqs = <<>>

FetchStart ==
    /\ frepo = "org/repo"
    /\ fsrv \in SeqsUpTo(FetchResponses, MaxPages)
    /\ fpage = 1
    /\ ftags = <<>>
    /\ fpc = "loop"
    /\ fret = [tags |-> <<>>, err |-> NoErr]
    /\ freqs = <<>>

\* one pass through the loop body: build the URL, send the request, then
\* return or append
FetchPage ==
    /\ fpc = "loop"
    /\ LET it == FetchIteration(fsrv, frepo, fpage, ftags) IN
        /\ freqs' = Append(freqs, buildTagsURL(frepo, fpage))
        /\ fpage' = it.page
        /\ ftags' = it.tags
        /\ fpc' = IF it.done THEN "returned" ELSE "loop"
        /\ fret' = it.ret
    /\ UNCHANGED <<frepo, fsrv>>
    /\ UNCHANGED notFetch

NextFetch == FetchPage

-----------------------------------------------------------------------------
(* The registry the repository layer runs against: what the tag API serves *)
(* for each repository, and how the pull of each tag ends.                 *)

maxConcurrent == 10

\* time.Parse(time.RFC1123, s): the instant, or a failure and the zero time
ParseRFC1123(s) ==
    IF s.layout = "RFC1123" THEN [ok |-> TRUE, t |-> s.t]
                            ELSE [ok |-> FALSE, t |-> 0]

\* time.Since(t)
Since(t) == NowT - t

RepoOrder == << "A", "B", "C", "D", "E", "H" >>
RepoNames == { RepoOrder[i] : i \in 1..Len(RepoOrder) }
SinceValues == { 1, 3 }

TagNow   == TagInfo("t1", RFC1123(NowT), 3)         \* age 0, 3 bytes
TagDay   == TagInfo("t2", RFC1123(NowT - 1), 100)   \* age 1
TagOld   == TagInfo("old", RFC1123(NowT - 3), 100)  \* age 3
TagTiny  == TagInfo("tiny", RFC1123(NowT), 2)       \* 2 bytes
TagBad   == TagInfo("bad", RFC3339(NowT), 100)      \* not RFC 1123

Quay(repo) ==
    CASE repo = "A" -> << OkPage(<<TagNow>>) >>
      [] repo = "B" -> << NotFound >>
      [] repo = "C" -> << OkPage(<<TagNow, TagOld>>), OkPage(<<TagTiny, TagDay>>) >>
      [] repo = "D" -> << OkPage(<<TagNow, TagBad, TagDay>>) >>
      [] repo = "E" -> << OkPage(<<TagNow>>), NetFail >>
      [] OTHER      -> << OkPage(<<TagNow>>) >>

\* how ProcessTag(repo, tag) ends: "ok", "copyfail" when the manifest copy
\* fails, "stuck" when processBlobs never returns (SpecBlobs: its HandleBlob
\* tasks block on the full error buffer)
Pull(repo, tag) ==
    CASE repo = "C" /\ tag = "t1" -> "copyfail"
      [] repo = "H"               -> "stuck"
      [] OTHER                    -> "ok"

\* ProcessTag as the repository layer sees it: whether it returns, and its error
ProcessTag(repo, tag, creationDate) ==
    CASE Pull(repo, tag) = "copyfail" ->
            [returns |-> TRUE,
             err |-> Errorf("failed to copy manifest for tag %s: %w", tag)]
      [] Pull(repo, tag) = "stuck" -> [returns |-> FALSE, err |-> NoErr]
      [] OTHER -> [returns |-> TRUE, err |-> NoErr]

-----------------------------------------------------------------------------
(* processRepository.                                                      *)

\* the mutant compares the size with >= 2 and the age with <=
Retained_OffByOne(tagInfo, parsedDate, since_) ==
    Since(parsedDate) <= since_ /\ tagInfo.Size >= 2

\* the condition under which a tag is pulled
Retained(tagInfo, parsedDate, since_) ==
    Since(parsedDate) < since_ /\ tagInfo.Size > 2

\* the mutant goes on to the next tag when a date does not parse
TagIteration_SkipBadDate(repo, tagInfo, since_) ==
    LET parsed == ParseRFC1123(tagInfo.LastModified) IN
    IF ~parsed.ok
    THEN [calls |-> <<>>, returns |-> TRUE, err |-> NoErr]
    ELSE IF Retained(tagInfo, parsed.t, since_)
    THEN LET r == ProcessTag(repo, tagInfo.Name, tagInfo.LastModified) IN
         [calls |-> << [tag |-> tagInfo, returned |-> r.returns, err |-> r.err] >>,
          returns |-> r.returns, err |-> NoErr]
    ELSE [calls |-> <<>>, returns |-> TRUE, err |-> NoErr]

\* the mutant returns the error of ProcessTag instead of logging it
TagIteration_ReturnPullError(repo, tagInfo, since_) ==
    LET parsed == ParseRFC1123(tagInfo.LastModified) IN
    IF ~parsed.ok
    THEN [calls |-> <<>>, returns |-> TRUE,
          err |-> Errorf("failed to parse creation date %s: %w",
                         tagInfo.LastModified.layout)]
    ELSE IF Retained(tagInfo, parsed.t, since_)
    THEN LET r == ProcessTag(repo, tagInfo.Name, tagInfo.LastModified) IN
         [calls |-> << [tag |-> tagInfo, returned |-> r.returns, err |-> r.err] >>,
          returns |-> r.returns, err |-> r.err]
    ELSE [calls |-> <<>>, returns |-> TRUE, err |-> NoErr]

\* one iteration of the range loop over tags: the ProcessTag call it makes (if
\* any, with its result, which is only logged), whether the iteration
\* ends, and the error processRepository returns from it (NoErr: the loop
\* goes on)
TagIteration(repo, tagInfo, since_) ==
    LET parsed == ParseRFC1123(tagInfo.LastModified) IN
    IF ~parsed.ok
    THEN [calls |-> <<>>, returns |-> TRUE,
          err |-> Errorf("failed to parse creation date %s: %w",
                         tagInfo.LastModified.layout)]
    ELSE IF Retained(tagInfo, parsed.t, since_)
    THEN LET r == ProcessTag(repo, tagInfo.Name, tagInfo.LastModified) IN
         [calls |-> << [tag |-> tagInfo, returned |-> r.returns, err |-> r.err] >>,
          returns |-> r.returns, err |-> NoErr]
    ELSE [calls |-> <<>>, returns |-> TRUE, err |-> NoErr]

\* the mutant reports every failure under the name of the first repository
RepositoryError_WrongRepo(repos, repo, err) ==
    Wrapf("repository %s: %w", repos[1], err)

\* the error a repository task sends to errorsChan
RepositoryError(repos, repo, err) == Wrapf("repository %s: %w", repo, err)

-----------------------------------------------------------------------------
(* ProcessRepositories.                                                    *)

Tasks == 1..Len(repositories)

\* the lists ProcessRepositories is called with: every set of at most
\* MaxRepos repositories, and one list longer than the admission gate
SmallRepoLists ==
    { SelectSeq(RepoOrder, LAMBDA r : r \in S) :
        S \in { T \in SUBSET RepoNames : Cardinality(T) <= MaxRepos } }
ManyRepos == [i \in 1..(maxConcurrent + 1) |-> "H"]

\* one repository more than the gate admits, each failing its tag fetch
ManyFailingRepos == [i \in 1..(maxConcurrent + 1) |-> "B"]

ReposStart ==
    /\ repositories \in SmallRepoLists \cup { ManyRepos }
    /\ since \in SinceValues
    /\ mpc = "loop"
    /\ spawned = 0
    /\ wg = 0
    /\ sem = 0
    /\ errorsChan = <<>>
    /\ errors = <<>>
    /\ rpc = [i \in Tasks |-> "new"]
    /\ rtags = [i \in Tasks |-> <<>>]
    /\ ridx = [i \in Tasks |-> 0]
    /\ rerr = [i \in Tasks |-> NoErr]
    /\ pulled = [i \in Tasks |-> <<>>]

\* one iteration of the for loop: wg.Add(1) and the go statement
Spawn ==
    /\ mpc = "loop"
    /\ spawned < Len(repositories)
    /\ spawned' = spawned + 1
    /\ wg' = wg + 1
    /\ rpc' = [rpc EXCEPT ![spawned + 1] = "wait"]
    /\ UNCHANGED <<repositories, since, mpc, sem, errorsChan, errors,
                   rtags, ridx, rerr, pulled>>
    /\ UNCHANGED notRepos

\* a task is admitted (sem <- struct{}{}) and processRepository fetches the
\* tags of its repository
StartRepository(i) ==
    /\ rpc[i] = "wait"
    /\ sem < maxConcurrent
    /\ sem' = sem + 1
    /\ LET repo == repositories[i]
           r == FetchTags(Quay(repo), repo) IN
        IF r.err # NoErr
        THEN /\ rerr' = [rerr EXCEPT ![i] =
                    Wrapf("failed to fetch tags for repository %s: %w", repo, r.err)]
             /\ rpc' = [rpc EXCEPT ![i] = "report"]
             /\ UNCHANGED <<rtags, ridx>>
        ELSE /\ rtags' = [rtags EXCEPT ![i] = r.tags]
             /\ ridx' = [ridx EXCEPT ![i] = 1]
             /\ rpc' = [rpc EXCEPT ![i] = "tags"]
             /\ UNCHANGED rerr
    /\ UNCHANGED <<repositories, since, mpc, spawned, wg, errorsChan, errors, pulled>>
    /\ UNCHANGED notRepos

\* one iteration of the range loop of processRepository; an iteration whose
\* ProcessTag call never returns never completes
ProcessNextTag(i) ==
    /\ rpc[i] = "tags"
    /\ ridx[i] <= Len(rtags[i])
    /\ LET it == TagIteration(repositories[i], rtags[i][ridx[i]], since) IN
        /\ it.returns
        /\ pulled' = [pulled EXCEPT ![i] = @ \o it.calls]
        /\ rerr' = [rerr EXCEPT ![i] = it.err]
        /\ rpc' = [rpc EXCEPT ![i] = IF it.err # NoErr THEN "report" ELSE "tags"]
        /\ ridx' = [ridx EXCEPT ![i] = IF it.err = NoErr THEN @ + 1 ELSE @]
    /\ UNCHANGED <<repositories, since, mpc, spawned, wg, sem, errorsChan,
                   errors, rtags>>
    /\ UNCHANGED notRepos

\* processRepository returned an error: the task sends it to errorsChan,
\* then its deferred calls release the slot and the WaitGroup
ReportError(i) ==
    /\ rpc[i] = "report"
    /\ Len(errorsChan) < Len(repositories)
    /\ errorsChan' = Append(errorsChan,
                            RepositoryError(repositories, repositories[i], rerr[i]))
    /\ sem' = sem - 1
    /\ wg' = wg - 1
    /\ rpc' = [rpc EXCEPT ![i] = "done"]
    /\ UNCHANGED <<repositories, since, mpc, spawned, errors, rtags, ridx,
                   rerr, pulled>>
    /\ UNCHANGED notRepos

\* processRepository returned nil: the deferred calls release the slot and
\* the WaitGroup
FinishRepository(i) ==
    /\ rpc[i] = "tags"
    /\ ridx[i] > Len(rtags[i])
    /\ sem' = sem - 1
    /\ wg' = wg - 1
    /\ rpc' = [rpc EXCEPT ![i] = "done"]
    /\ UNCHANGED <<repositories, since, mpc, spawned, errorsChan, errors,
                   rtags, ridx, rerr, pulled>>
    /\ UNCHANGED notRepos

\* the mutant drains the channel as soon as the for loop has ended, without
\* wg.Wait()
Collect_NoWait ==
    /\ mpc = "loop"
    /\ spawned = Len(repositories)
    /\ errors' = errorsChan
    /\ errorsChan' = <<>>
    /\ mpc' = "returned"
    /\ UNCHANGED <<repositories, since, spawned, wg, sem, rpc, rtags, ridx,
                   rerr, pulled>>
    /\ UNCHANGED notRepos

\* wg.Wait() returns, the channel is closed and drained into the result
Collect ==
    /\ mpc = "loop"
    /\ spawned = Len(repositories)
    /\ wg = 0
    /\ errors' = errorsChan
    /\ errorsChan' = <<>>
    /\ mpc' = "returned"
    /\ UNCHANGED <<repositories, since, spawned, wg, sem, rpc, rtags, ridx,
                   rerr, pulled>>
    /\ UNCHANGED notRepos

Next ==
    \/ Spawn
    \/ \E i \in Tasks : StartRepository(i)
    \/ \E i \in Tasks : ProcessNextTag(i)
    \/ \E i \in Tasks : ReportError(i)
    \/ \E i \in Tasks : FinishRepository(i)
    \/ Collect

ReposIdle ==
    /\ repositories = <<>> /\ since = 0 /\ mpc = "idle" /\ spawned = 0
    /\ wg = 0 /\ sem = 0 /\ errorsChan = <<>> /\ errors = <<>>
    /\ rpc = <<>> /\ rtags = <<>> /\ ridx = <<>> /\ rerr = <<>> /\ pulled = <<>>

-----------------------------------------------------------------------------
(* The blob directory.  An entry is a sub-directory or a file; of a file   *)
(* the model keeps its size, the extension of its name, its first bytes    *)
(* (two at most), whether it is a well-formed tar.gz stream, and whether   *)
(* its decompression outlasts the deadline.                                *)

maxConcurrentBlobs == 10
errorsBuffer == 10

\* the bytes 0x1F 0x8B
gzipMagic == <<31, 139>>

DirEntry    == [isDir |-> TRUE, size |-> 0, ext |-> "", head |-> <<>>,
                valid |-> FALSE, slow |-> FALSE]
EmptyBlob   == [isDir |-> FALSE, size |-> 0, ext |-> "", head |-> <<>>,
                valid |-> FALSE, slow |-> FALSE]
PlainBlob   == [isDir |-> FALSE, size |-> 5, ext |-> "", head |-> <<123, 34>>,
                valid |-> FALSE, slow |-> FALSE]
TarGzBlob   == [isDir |-> FALSE, size |-> 5, ext |-> "", head |-> gzipMagic,
                valid |-> TRUE, slow |-> FALSE]
CorruptBlob == [isDir |-> FALSE, size |-> 5, ext |-> "", head |-> gzipMagic,
                valid |-> FALSE, slow |-> FALSE]
SlowBlob    == [isDir |-> FALSE, size |-> 5, ext |-> "", head |-> gzipMagic,
                valid |-> TRUE, slow |-> TRUE]
\* a file named *.tar.gz that is no gzip stream
SuffixBlob  == [isDir |-> FALSE, size |-> 5, ext |-> ".tar.gz", head |-> <<123, 34>>,
                valid |-> FALSE, slow |-> FALSE]
\* a file of one byte, 0x1F
OneByteBlob == [isDir |-> FALSE, size |-> 1, ext |-> "", head |-> <<31>>,
                valid |-> FALSE, slow |-> FALSE]

BlobKinds == { DirEntry, EmptyBlob, PlainBlob, TarGzBlob, CorruptBlob, SlowBlob,
               SuffixBlob, OneByteBlob }

Blobs == 1..Len(blobDir)

\* filepath.Join(c.BlobDir, entry.Name()), cleaned
BlobPath(i) == "blobs/sha256/b" \o ToString(i) \o blobDir[i].ext

-----------------------------------------------------------------------------
(* processBlob, extractBlob and extractTarGz.                              *)

\* file.Read(buf) on a fresh buffer of two bytes: the bytes read, the rest
\* of the buffer left at zero, and whether Read returned an error (io.EOF on
\* an empty file)
ReadHead(i) ==
    [buf |-> [k \in 1..2 |-> IF k <= Len(blobDir[i].head) THEN blobDir[i].head[k] ELSE 0],
     failed |-> blobDir[i].size = 0]

\* strings.HasSuffix(blobPath, ".tar.gz")
HasSuffixTarGz(i) == blobDir[i].ext = ".tar.gz"

\* the mutant asks for the suffix and the magic bytes together
isTarGzBlob_NeedsBoth(i) ==
    IF ReadHead(i).failed THEN FALSE
    ELSE HasSuffixTarGz(i) /\ ReadHead(i).buf = gzipMagic

\* the suffix .tar.gz, or the two magic bytes
isTarGzBlob(i) ==
    IF ReadHead(i).failed THEN FALSE
    ELSE HasSuffixTarGz(i)
            \/ (ReadHead(i).buf[1] = gzipMagic[1] /\ ReadHead(i).buf[2] = gzipMagic[2])

\* the result of decompressing and unpacking the blob
extractTarGz(i) ==
    IF blobDir[i].valid THEN NoErr
    ELSE Errorf("failed to create gzip reader: %w", "")

\* the mutant returns nil for an empty file
processBlob_EmptyIgnored(i) ==
    IF blobDir[i].size # 0 /\ isTarGzBlob(i)
    THEN [outcome |-> "extract", err |-> NoErr]
    ELSE [outcome |-> "ignored", err |-> NoErr]

\* processBlob up to its return or to the select of extractBlob: "error"
\* with the error returned, "ignored" for a nil return without extraction,
\* "extract" when extractBlob has started its goroutine
processBlob(i) ==
    IF blobDir[i].size = 0
    THEN [outcome |-> "error",
          err |-> Errorf("blob %s is empty, skipping", BlobPath(i))]
    ELSE IF isTarGzBlob(i)
    THEN [outcome |-> "extract", err |-> NoErr]
    ELSE [outcome |-> "ignored", err |-> NoErr]

-----------------------------------------------------------------------------
(* processBlobs and HandleBlob.                                            *)

SmallBlobDirs == SeqsUpTo(BlobKinds, MaxBlobs)

\* directories with one file more than the gate admits
ManyBlobDirs ==
    { [i \in 1..(maxConcurrentBlobs + 1) |-> EmptyBlob],
      [i \in 1..(maxConcurrentBlobs + 1) |-> SlowBlob] }

BlobsStart(dirs) ==
    /\ blobDir \in dirs
    /\ bmain = "loop"
    /\ bspawned = 0
    /\ bwg = 0
    /\ bsem = 0
    /\ berrors = {}
    /\ blog = {}
    /\ bpc = [i \in Blobs |-> "new"]
    /\ berr = [i \in Blobs |-> NoErr]
    /\ gpc = [i \in Blobs |-> "none"]
    /\ extractErr = [i \in Blobs |-> <<>>]
    /\ btimedout = {}

\* one iteration of the for loop over the entries: a directory is skipped,
\* a file gets wg.Add(1) and its HandleBlob goroutine
Dispatch ==
    /\ bmain = "loop"
    /\ bspawned < Len(blobDir)
    /\ bspawned' = bspawned + 1
    /\ IF blobDir[bspawned + 1].isDir
       THEN UNCHANGED <<bwg, bpc>>
       ELSE /\ bwg' = bwg + 1
            /\ bpc' = [bpc EXCEPT ![bspawned + 1] = "wait"]
    /\ UNCHANGED <<blobDir, bmain, bsem, berrors, blog, berr, gpc, extractErr,
                   btimedout>>
    /\ UNCHANGED notBlobs

\* HandleBlob is admitted (sem <- struct{}{}) and runs processBlob up to its
\* return or to the select of extractBlob, whose goroutine is then started
AcquireBlob(i) ==
    /\ bpc[i] = "wait"
    /\ bsem < maxConcurrentBlobs
    /\ bsem' = bsem + 1
    /\ LET r == processBlob(i) IN
        /\ berr' = [berr EXCEPT ![i] = r.err]
        /\ bpc' = [bpc EXCEPT ![i] =
                    CASE r.outcome = "error"   -> "send"
                      [] r.outcome = "extract" -> "select"
                      [] OTHER                 -> "return"]
        /\ gpc' = [gpc EXCEPT ![i] =
                    IF r.outcome = "extract" THEN "running" ELSE @]
    /\ UNCHANGED <<blobDir, bmain, bspawned, bwg, berrors, blog, extractErr,
                   btimedout>>
    /\ UNCHANGED notBlobs

\* the mutant has a channel extractErr without a buffer: the send needs the
\* select of extractBlob to receive it
ExtractionEnds_Unbuffered(i) ==
    /\ gpc[i] = "running"
    /\ blobDir[i].slow => i \in btimedout
    /\ bpc[i] = "select"
    /\ extractErr' = [extractErr EXCEPT ![i] = Append(@, extractTarGz(i))]
    /\ gpc' = [gpc EXCEPT ![i] = "finished"]
    /\ UNCHANGED <<blobDir, bmain, bspawned, bwg, bsem, berrors, blog, bpc,
                   berr, btimedout>>
    /\ UNCHANGED notBlobs

\* the goroutine of extractBlob ends extractTarGz and sends its result to
\* extractErr, whose buffer holds one value.  A slow decompression ends only
\* after the deadline, when the return of processBlob has closed the file it
\* reads from; what it then sends is read by nobody.
ExtractionEnds(i) ==
    /\ gpc[i] = "running"
    /\ blobDir[i].slow => i \in btimedout
    /\ Len(extractErr[i]) < 1
    /\ \E err \in { extractTarGz(i) } \cup
                  ( IF i \in btimedout
                    THEN { Errorf("failed to read tar header: %w", "file already closed") }
                    ELSE {} ) :
            extractErr' = [extractErr EXCEPT ![i] = Append(@, err)]
    /\ gpc' = [gpc EXCEPT ![i] = "finished"]
    /\ UNCHANGED <<blobDir, bmain, bspawned, bwg, bsem, berrors, blog, bpc,
                   berr, btimedout>>
    /\ UNCHANGED notBlobs

\* the select of extractBlob receives the result of the extraction
ReceiveResult(i) ==
    /\ bpc[i] = "select"
    /\ extractErr[i] # <<>>
    /\ LET err == Head(extractErr[i]) IN
        /\ berr' = [berr EXCEPT ![i] =
                    IF err # NoErr
                    THEN Wrapf("failed to extract tar.gz blob %s: %w", BlobPath(i), err)
                    ELSE NoErr]
        /\ bpc' = [bpc EXCEPT ![i] = IF err # NoErr THEN "send" ELSE "return"]
    /\ extractErr' = [extractErr EXCEPT ![i] = Tail(@)]
    /\ UNCHANGED <<blobDir, bmain, bspawned, bwg, bsem, berrors, blog, gpc,
                   btimedout>>
    /\ UNCHANGED notBlobs

\* the mutant shares one deadline among the blobs: its expiry fails every
\* extraction that is waiting in its select
Timeout_SharedDeadline(i) ==
    /\ bpc[i] = "select"
    /\ Cardinality(btimedout) < MaxTimeouts
    /\ btimedout' = btimedout \cup {i}
    /\ berr' = [j \in Blobs |->
                    IF bpc[j] = "select"
                    THEN Errorf("timeout while extracting blob %s", BlobPath(i))
                    ELSE berr[j]]
    /\ bpc' = [j \in Blobs |-> IF bpc[j] = "select" THEN "send" ELSE bpc[j]]
    /\ UNCHANGED <<blobDir, bmain, bspawned, bwg, bsem, berrors, blog, gpc,
                   extractErr>>
    /\ UNCHANGED notBlobs

\* the select of extractBlob takes ctx.Done(): the deadline of this blob
\* has expired; its goroutine goes on
Timeout(i) ==
    /\ bpc[i] = "select"
    /\ Cardinality(btimedout) < MaxTimeouts
    /\ btimedout' = btimedout \cup {i}
    /\ berr' = [berr EXCEPT ![i] =
                    Errorf("timeout while extracting blob %s", BlobPath(i))]
    /\ bpc' = [bpc EXCEPT ![i] = "send"]
    /\ UNCHANGED <<blobDir, bmain, bspawned, bwg, bsem, berrors, blog, gpc,
                   extractErr>>
    /\ UNCHANGED notBlobs

\* HandleBlob sends the error of processBlob to errors (and waits while the
\* buffer is full), then its deferred calls release the slot and the WaitGroup
SendError(i) ==
    /\ bpc[i] = "send"
    /\ Cardinality(berrors) < errorsBuffer
    /\ berrors' = berrors \cup { berr[i] }
    /\ bsem' = bsem - 1
    /\ bwg' = bwg - 1
    /\ bpc' = [bpc EXCEPT ![i] = "done"]
    /\ UNCHANGED <<blobDir, bmain, bspawned, blog, berr, gpc, extractErr,
                   btimedout>>
    /\ UNCHANGED notBlobs

\* processBlob returned nil: the deferred calls of HandleBlob release the
\* slot and the WaitGroup
ReturnBlob(i) ==
    /\ bpc[i] = "return"
    /\ bsem' = bsem - 1
    /\ bwg' = bwg - 1
    /\ bpc' = [bpc EXCEPT ![i] = "done"]
    /\ UNCHANGED <<blobDir, bmain, bspawned, berrors, blog, berr, gpc,
                   extractErr, btimedout>>
    /\ UNCHANGED notBlobs

\* wg.Wait() returns, errors is closed, drained into the log, and processBlobs
\* returns nil
DrainErrors ==
    /\ bmain = "loop"
    /\ bspawned = Len(blobDir)
    /\ bwg = 0
    /\ blog' = berrors
    /\ berrors' = {}
    /\ bmain' = "returned"
    /\ UNCHANGED <<blobDir, bspawned, bwg, bsem, bpc, berr, gpc, extractErr,
                   btimedout>>
    /\ UNCHANGED notBlobs

NextBlobs ==
    \/ Dispatch
    \/ \E i \in Blobs : AcquireBlob(i)
    \/ \E i \in Blobs : ExtractionEnds(i)
    \/ \E i \in Blobs : ReceiveResult(i)
    \/ \E i \in Blobs : Timeout(i)
    \/ \E i \in Blobs : SendError(i)
    \/ \E i \in Blobs : ReturnBlob(i)
    \/ DrainErrors

BlobsIdle ==
    /\ blobDir = <<>> /\ bmain = "idle" /\ bspawned = 0 /\ bwg = 0 /\ bsem = 0
    /\ berrors = {} /\ blog = {} /\ bpc = <<>> /\ berr = <<>> /\ gpc = <<>>
    /\ extractErr = <<>> /\ btimedout = {}

-----------------------------------------------------------------------------
(* The destination directory of an extraction.  A path is the sequence of  *)
(* its components below the destination; at a path there is nothing, a     *)
(* directory, or a regular file with its content.  The destination itself  *)
(* is a directory (ProcessTag has created it).                             *)

PathD  == <<"d">>
PathF  == <<"f">>
PathDF == <<"d", "f">>
Paths  == { PathD, PathF, PathDF }

Nothing       == [kind |-> "none", content |-> ""]
Directory     == [kind |-> "dir", content |-> ""]
RegularFile(c) == [kind |-> "file", content |-> c]

\* filepath.Join of the components
PathString(p) == IF Len(p) = 1 THEN p[1] ELSE p[1] \o "/" \o p[2]

Parent(p) == SubSeq(p, 1, Len(p) - 1)

IsDirectory(fs, p) == p = <<>> \/ (p \in DOMAIN fs /\ fs[p].kind = "dir")

\* the mutant never finds anything at the path
StatSucceeds_Never(fs, p) == FALSE

\* os.Stat(p) returns no error
StatSucceeds(fs, p) == IsDirectory(fs, Parent(p)) /\ fs[p].kind # "none"

\* os.MkdirAll(p): the directories of the path are created from the top,
\* up to a component that is a regular file
MkdirAll(fs, p) ==
    LET prefixes == { SubSeq(p, 1, k) : k \in 1..Len(p) }
        files    == { q \in prefixes : fs[q].kind = "file" }
        made     == { q \in prefixes : \A f \in files : Len(q) < Len(f) }
    IN  [fs  |-> [q \in DOMAIN fs |-> IF q \in made THEN Directory ELSE fs[q]],
         err |-> IF files = {} THEN NoErr
                 ELSE Errorf("mkdir %s: not a directory", PathString(p))]

\* os.Create(p): the file is created, or truncated if it exists
Create(fs, p) ==
    IF ~IsDirectory(fs, Parent(p))
    THEN [fs |-> fs, err |-> Errorf("open %s: no such file or directory", PathString(p))]
    ELSE IF fs[p].kind = "dir"
    THEN [fs |-> fs, err |-> Errorf("open %s: is a directory", PathString(p))]
    ELSE [fs |-> [fs EXCEPT ![p] = RegularFile("")], err |-> NoErr]

-----------------------------------------------------------------------------
(* Archives.  A tar entry has its Typeflag ('5' directory, '0' regular     *)
(* file, '2' symbolic link), its name and its content.  A damaged archive  *)
(* is damaged at one place: in the gzip header, in the tar header of entry *)
(* at, in the content of entry at, or in the checksum that ends the gzip   *)
(* stream.                                                                 *)

TypeDir     == "5"
TypeReg     == "0"
TypeSymlink == "2"

TarEntry(type, name, content) == [Typeflag |-> type, Name |-> name, content |-> content]

TarEntries ==
    { TarEntry(TypeDir, PathD, ""),
      TarEntry(TypeDir, PathDF, ""),
      TarEntry(TypeReg, PathF, "a"),
      TarEntry(TypeReg, PathF, "b"),
      TarEntry(TypeReg, PathDF, "a"),
      TarEntry(TypeReg, PathD, "a"),
      TarEntry(TypeSymlink, PathF, "") }

Sound == [part |-> "none", at |-> 0]

Damages(entries) ==
    { Sound, [part |-> "gzip", at |-> 0], [part |-> "checksum", at |-> 0] }
    \cup { [part |-> "header", at |-> k] : k \in 1..(Len(entries) + 1) }
    \cup { [part |-> "content", at |-> k] :
                k \in { j \in 1..Len(entries) : entries[j].Typeflag = TypeReg } }

Archive(entries, damage) == [entries |-> entries, damage |-> damage]

Archives ==
    UNION { { Archive(es, d) : d \in Damages(es) } :
                es \in SeqsUpTo(TarEntries, MaxEntries) }

\* the archives of one entry at most, undamaged
ShortArchives == { Archive(es, Sound) : es \in SeqsUpTo(TarEntries, 1) }

-----------------------------------------------------------------------------
(* extractTarGz, handleTarEntry and createFileFromTar.                     *)

Calls == {1, 2}

\* what the destination directory may hold before the first call
InitialDirs ==
    { [q \in Paths |-> Nothing],
      [q \in Paths |-> IF q = PathF THEN RegularFile("z") ELSE Nothing],
      [q \in Paths |-> IF q = PathD THEN Directory ELSE Nothing] }

ExtractStart ==
    /\ xmode \in {"again", "concurrent"}
    \* two blobs of one tag are extracted into a fresh directory
    /\ xfs \in IF xmode = "again" THEN InitialDirs ELSE { [q \in Paths |-> Nothing] }
    /\ xarch \in { a \in [Calls -> Archives] :
                    IF xmode = "again" THEN a[2] = a[1] ELSE a[2] \in ShortArchives }
    /\ xpc = [t \in Calls |-> "open"]
    /\ xidx = [t \in Calls |-> 0]
    /\ xerr = [t \in Calls |-> NoErr]
    /\ xwritten = [t \in Calls |-> {}]
    /\ xbefore = xfs

\* the tar entry call t has at hand
CurrentEntry(t) == xarch[t].entries[xidx[t]]

\* filepath.Clean of a path given from the destination: separators and
\* "." are dropped, and a ".." takes back the component before it.  Above
\* the destination a ".." stays, as the destination lies some directories
\* deep (out/<repo>/<date>/<tag>).
RECURSIVE CleanOnto(_, _)
CleanOnto(acc, rest) ==
    IF rest = <<>> THEN acc
    ELSE LET c == Head(rest) IN
         IF c \in {"/", "."}
         THEN CleanOnto(acc, Tail(rest))
         ELSE IF c = ".." /\ acc # <<>> /\ acc[Len(acc)] # ".."
         THEN CleanOnto(SubSeq(acc, 1, Len(acc) - 1), Tail(rest))
         ELSE CleanOnto(Append(acc, c), Tail(rest))

Clean(path) == CleanOnto(<<>>, path)

\* filepath.Join(dest, header.Name), as a path from the destination: the
\* name is appended to the destination, a leading separator included, and
\* the whole is cleaned
DestPath(t) == Clean(CurrentEntry(t).Name)

\* gzip.NewReader and tar.NewReader
OpenArchive(t) ==
    /\ xpc[t] = "open"
    /\ (t = 2 /\ xmode = "again") => xpc[1] = "done"
    /\ IF xarch[t].damage.part = "gzip"
       THEN /\ xerr' = [xerr EXCEPT ![t] =
                    Errorf("failed to create gzip reader: %w", "gzip: invalid header")]
            /\ xpc' = [xpc EXCEPT ![t] = "done"]
            /\ UNCHANGED xidx
       ELSE /\ xpc' = [xpc EXCEPT ![t] = "next"]
            /\ xidx' = [xidx EXCEPT ![t] = 1]
            /\ UNCHANGED xerr
    /\ xbefore' = IF t = 2 /\ xmode = "again" THEN xfs ELSE xbefore
    /\ UNCHANGED <<xfs, xarch, xmode, xwritten>>
    /\ UNCHANGED notExtract

\* tarReader.Next() cannot read the header of entry k: the header itself is
\* damaged, or the content of the entry before, which Next has to skip
HeaderUnreadable(a, k) ==
    \/ a.damage.part = "header" /\ a.damage.at = k
    \/ a.damage.part = "content" /\ a.damage.at = k - 1

\* the mutant takes an entry of any other type for a regular file
EntryAction_DefaultAsFile(typeflag) ==
    IF typeflag = TypeDir THEN "mkdir" ELSE "file"

\* the switch of handleTarEntry
EntryAction(typeflag) ==
    CASE typeflag = TypeDir -> "mkdir"
      [] typeflag = TypeReg -> "file"
      [] OTHER              -> "unsupported"

\* one iteration of the loop of extractTarGz, up to the return of
\* handleTarEntry or to its call of createFileFromTar
NextEntry(t) ==
    /\ xpc[t] = "next"
    /\ LET a == xarch[t]  k == xidx[t] IN
        IF HeaderUnreadable(a, k)
        THEN /\ xerr' = [xerr EXCEPT ![t] =
                    Errorf("failed to read tar header: %w", "unexpected EOF")]
             /\ xpc' = [xpc EXCEPT ![t] = "done"]
             /\ UNCHANGED <<xfs, xidx>>
        ELSE IF k > Len(a.entries)
        THEN \* io.EOF: the loop ends and extractTarGz returns nil
             /\ xpc' = [xpc EXCEPT ![t] = "done"]
             /\ UNCHANGED <<xfs, xidx, xerr>>
        ELSE IF EntryAction(a.entries[k].Typeflag) = "mkdir"
        THEN LET r == MkdirAll(xfs, DestPath(t)) IN
             /\ xfs' = r.fs
             /\ xerr' = [xerr EXCEPT ![t] = r.err]
             /\ xpc' = [xpc EXCEPT ![t] = IF r.err # NoErr THEN "done" ELSE "next"]
             /\ xidx' = [xidx EXCEPT ![t] = IF r.err # NoErr THEN k ELSE k + 1]
        ELSE IF EntryAction(a.entries[k].Typeflag) = "file"
        THEN IF StatSucceeds(xfs, DestPath(t))
             THEN /\ xidx' = [xidx EXCEPT ![t] = k + 1]
                  /\ UNCHANGED <<xfs, xerr, xpc>>
             ELSE /\ xpc' = [xpc EXCEPT ![t] = "create"]
                  /\ UNCHANGED <<xfs, xidx, xerr>>
        ELSE /\ xerr' = [xerr EXCEPT ![t] =
                    Errorf("unsupported tar entry: %c", a.entries[k].Typeflag)]
             /\ xpc' = [xpc EXCEPT ![t] = "done"]
             /\ UNCHANGED <<xfs, xidx>>
    /\ UNCHANGED <<xarch, xmode, xwritten, xbefore>>
    /\ UNCHANGED notExtract

\* createFileFromTar: os.Create
CreateFile(t) ==
    /\ xpc[t] = "create"
    /\ LET r == Create(xfs, DestPath(t)) IN
        IF r.err # NoErr
        THEN /\ xerr' = [xerr EXCEPT ![t] =
                    Wrapf("failed to create file %s: %w", PathString(DestPath(t)), r.err)]
             /\ xpc' = [xpc EXCEPT ![t] = "done"]
             /\ UNCHANGED <<xfs, xwritten>>
        ELSE /\ xfs' = r.fs
             /\ xwritten' = [xwritten EXCEPT ![t] = @ \cup { DestPath(t) }]
             /\ xpc' = [xpc EXCEPT ![t] = "copy"]
             /\ UNCHANGED xerr
    /\ UNCHANGED <<xarch, xmode, xidx, xbefore>>
    /\ UNCHANGED notExtract

\* createFileFromTar: io.Copy(outFile, tarReader), then outFile.Close().  On
\* damaged content the copy stops with an error after a part of the content
\* has been written.
CopyFile(t) ==
    /\ xpc[t] = "copy"
    /\ LET a == xarch[t]  k == xidx[t] IN
        IF a.damage.part = "content" /\ a.damage.at = k
        THEN /\ xfs' = [xfs EXCEPT ![DestPath(t)] = RegularFile("")]
             /\ xerr' = [xerr EXCEPT ![t] =
                    Wrapf("failed to write file %s: %w", PathString(DestPath(t)),
                          Errorf("%s", "unexpected EOF"))]
             /\ xpc' = [xpc EXCEPT ![t] = "done"]
             /\ UNCHANGED xidx
        ELSE /\ xfs' = [xfs EXCEPT ![DestPath(t)] = RegularFile(a.entries[k].content)]
             /\ xpc' = [xpc EXCEPT ![t] = "next"]
             /\ xidx' = [xidx EXCEPT ![t] = k + 1]
             /\ UNCHANGED xerr
    /\ UNCHANGED <<xarch, xmode, xwritten, xbefore>>
    /\ UNCHANGED notExtract

\* Archives whose entry names are not clean paths below the destination:
\* names with "..", and absolute names.
PathUp  == <<"..">>
PathUpE == <<"..", "e">>

NamedEntries ==
    { TarEntry(TypeReg, <<"..", "e">>, "a"),
      TarEntry(TypeDir, <<"..", "e">>, ""),
      TarEntry(TypeReg, <<"/", "f">>, "a"),
      TarEntry(TypeReg, <<"d", "/", "..", "/", "f">>, "b"),
      TarEntry(TypeDir, <<"/", "d">>, ""),
      TarEntry(TypeReg, <<"d", "/", ".", "/", "f">>, "a") }

NamedArchives == { Archive(es, Sound) : es \in SeqsUpTo(NamedEntries, MaxEntries) }

\* the destination, empty, and the directory above it, which may hold a file
SurroundingDirs ==
    { [q \in Paths \cup {PathUp, PathUpE} |->
            IF q = PathUp THEN Directory ELSE IF q = PathUpE THEN e ELSE Nothing] :
        e \in {Nothing, RegularFile("z")} }

\* a path that is not inside the destination
IsOutside(p) == p # <<>> /\ p[1] = ".."

ExtractNamesStart ==
    /\ xmode = "again"
    /\ xfs \in SurroundingDirs
    /\ xarch \in { a \in [Calls -> NamedArchives] : a[2] = a[1] }
    /\ xpc = [t \in Calls |-> "open"]
    /\ xidx = [t \in Calls |-> 0]
    /\ xerr = [t \in Calls |-> NoErr]
    /\ xwritten = [t \in Calls |-> {}]
    /\ xbefore = xfs

NextExtract ==
    \/ \E t \in Calls : OpenArchive(t)
    \/ \E t \in Calls : NextEntry(t)
    \/ \E t \in Calls : CreateFile(t)
    \/ \E t \in Calls : CopyFile(t)

ExtractIdle ==
    /\ xfs = <<>> /\ xarch = <<>> /\ xmode = "idle" /\ xpc = <<>> /\ xidx = <<>>
    /\ xerr = <<>> /\ xwritten = <<>> /\ xbefore = <<>>

-----------------------------------------------------------------------------
(* ArtifactScanner.  A path is a sequence of tokens ("/" among them), a    *)
(* pattern a regular expression made of one literal run of tokens, with or *)
(* without a closing $.  A node of the tree is a directory, a regular file *)
(* or a symbolic link to a regular file.                                   *)

Node(path, kind, content) == [path |-> path, kind |-> kind, content |-> content]

RootNode == Node(<<"r">>, "dir", "")

\* what the tree may hold below its root, in lexical order
NodePool ==
    << Node(<<"r", "/", "a", ".log">>, "file", "x"),
       Node(<<"r", "/", "c", ".log">>, "symlink", "z"),
       Node(<<"r", "/", "d", ".txt">>, "file", ""),
       Node(<<"r", "/", "logs">>, "dir", ""),
       Node(<<"r", "/", "logs", "/", "b", ".txt">>, "file", "y") >>

\* the subsequence of q at the indices in S
RECURSIVE Pick(_, _, _)
Pick(q, S, k) ==
    IF k > Len(q) THEN <<>>
    ELSE (IF k \in S THEN <<q[k]>> ELSE <<>>) \o Pick(q, S, k + 1)

\* the trees: the root and some nodes of the pool, each with its directory
Trees ==
    { <<RootNode>> \o Pick(NodePool, S, 1) :
        S \in { T \in SUBSET (1..Len(NodePool)) : 5 \in T => 4 \in T } }

Pattern(lit, anchored) == [lit |-> lit, anchored |-> anchored]

PatternPool ==
    { Pattern(<<".log">>, TRUE),      \* \.log$
      Pattern(<<"logs">>, FALSE),     \* logs
      Pattern(<<"b", ".txt">>, TRUE)  \* b\.txt$ 
    }

\* regexp.MustCompile(s).MatchString(filePath)
MatchString(pat, path) ==
    \E o \in 1..Len(path) :
        /\ o + Len(pat.lit) - 1 <= Len(path)
        /\ SubSeq(path, o, o + Len(pat.lit) - 1) = pat.lit
        /\ pat.anchored => o + Len(pat.lit) - 1 = Len(path)

\* slices.ContainsFunc(as.config.FileNameFilter, ...)
isRequiredFile(patterns, path) ==
    \E k \in 1..Len(patterns) : MatchString(patterns[k], path)

\* the path as a string
RECURSIVE PathText(_)
PathText(path) == IF path = <<>> THEN "" ELSE Head(path) \o PathText(Tail(path))

\* info.Name(): the tokens after the last "/"
RECURSIVE BaseName(_)
BaseName(path) ==
    IF \E k \in 1..Len(path) : path[k] = "/"
    THEN BaseName(Tail(path))
    ELSE PathText(path)

Artifact(content, filename) == [Content |-> content, Filename |-> filename]

\* the mutant stores the entry before it finds that the read has failed
initArtifactsFilesPathMap_StoreFirst(map, node) ==
    [map |-> (node.path :> Artifact(node.content, BaseName(node.path))) @@ map,
     err |-> IF node.kind = "dir"
             THEN Errorf("read %s: is a directory", PathText(node.path))
             ELSE NoErr]

\* os.Open and io.ReadAll, then the assignment to FilesPathMap: a directory
\* opens but cannot be read, a symbolic link is followed
initArtifactsFilesPathMap(map, node) ==
    IF node.kind = "dir"
    THEN [map |-> map, err |-> Errorf("read %s: is a directory", PathText(node.path))]
    ELSE [map |-> (node.path :> Artifact(node.content, BaseName(node.path))) @@ map,
          err |-> NoErr]

ScanStart ==
    /\ stree \in Trees
    /\ spatterns \in SeqsUpTo(PatternPool, MaxPatterns)
    /\ sidx = 1
    /\ smap = <<>>
    /\ serr = NoErr
    /\ spc = "walk"

\* filepath.Walk calls the function on the next node, with the error it met
\* on the way to the node if it met one (the node is gone, or its directory
\* cannot be read); an error the function returns ends the walk
Visit ==
    /\ spc = "walk"
    /\ sidx <= Len(stree)
    /\ LET node == stree[sidx] IN
      \E walkFailed \in BOOLEAN :
        IF walkFailed
        THEN /\ serr' = Errorf("failed to visit file in path %s: %+v", PathText(node.path))
             /\ spc' = "returned"
             /\ UNCHANGED <<smap, sidx>>
        ELSE IF isRequiredFile(spatterns, node.path)
        THEN LET r == initArtifactsFilesPathMap(smap, node) IN
             /\ smap' = r.map
             /\ serr' = r.err
             /\ spc' = IF r.err # NoErr THEN "returned" ELSE "walk"
             /\ sidx' = IF r.err # NoErr THEN sidx ELSE sidx + 1
        ELSE /\ sidx' = sidx + 1
             /\ UNCHANGED <<smap, serr, spc>>
    /\ UNCHANGED <<stree, spatterns>>
    /\ UNCHANGED notScan

\* filepath.Walk has visited every node: processExtractedFiles returns nil
WalkEnds ==
    /\ spc = "walk"
    /\ sidx > Len(stree)
    /\ spc' = "returned"
    /\ UNCHANGED <<stree, spatterns, sidx, smap, serr>>
    /\ UNCHANGED notScan

NextScan == Visit \/ WalkEnds

ScanIdle ==
    /\ stree = <<>> /\ spatterns = <<>> /\ sidx = 0 /\ smap = <<>>
    /\ serr = NoErr /\ spc = "idle"

-----------------------------------------------------------------------------
(* Controller.ProcessTag: the calls one run makes, one after the other, on *)
(* the OCI store of the run.                                                *)

\* c.OutputDir
OutputDir == "out"

\* the tags of the registry and the time each was last modified
TagNames == {"t1", "t2"}
LastModified(tag) == IF tag = "t1" THEN RFC1123(NowT) ELSE RFC1123(NowT - 1)

\* the repositories; "P" is private: the registry serves it to a client with
\* credentials only
TagRepos == {"A", "P"}
RequiresAuth(repo) == repo = "P"

\* the blobs a manifest references: "x" and "y" are tar.gz archives of one
\* file, "bad" is a tar.gz that cannot be read, "cfg" is a JSON document
Manifest(tag) == IF tag = "t1" THEN {"x", "bad"} ELSE {"y", "cfg"}
BlobNames == UNION { Manifest(tag) : tag \in TagNames }
BlobFiles(b) == CASE b = "x" -> {"fx"} [] b = "y" -> {"fy"} [] OTHER -> {}

\* the states of the docker credential store: it holds credentials of
\* quay.io, it holds none, or it cannot be created
CredStores == {"entry", "none", "broken"}

\* the creation date each caller passes: RunE the time of the run,
\* processRepository the time the tag was last modified
CreationDate(mode, tag) ==
    IF mode = "repo" THEN RFC1123(NowT) ELSE LastModified(tag)

Call(repo, tag, mode) ==
    [repo |-> repo, tag |-> tag, creationDate |-> CreationDate(mode, tag)]

\* time.Time.Format("2006-01-02"); the zero time is the first day of year 1
FormatDate(t) == IF t = 0 THEN "0001-01-01" ELSE "day-" \o ToString(t)

\* the mutant fails when the store holds no credentials
setupRemoteRepository_NeedsCredentials(repo, cred) ==
    IF cred = "entry" THEN NoErr
    ELSE Errorf("failed to create credential store: %w", "")

\* setupRemoteRepository: its error
setupRemoteRepository(repo, cred) ==
    IF cred = "broken"
    THEN Errorf("failed to create credential store: %w", "")
    ELSE NoErr

DeadlineExceeded == Errorf("context deadline exceeded", "")
Unauthorized == Errorf("unauthorized", "")

\* the mutant drops the error of oras.Copy
copyTagManifest_ErrorDropped(tag, err) == NoErr

\* copyTagManifest: its error, given what oras.Copy returned
copyTagManifest(tag, err) ==
    IF err = NoErr THEN NoErr
    ELSE Wrapf("failed to copy manifest for tag %s: %w", tag, err)

\* oras.Copy under ctx: its error
Copy(repo, cred, expired) ==
    IF expired # "no" THEN DeadlineExceeded
    ELSE IF RequiresAuth(repo) /\ cred # "entry" THEN Unauthorized
    ELSE NoErr

\* createOutputDirectory
createOutputDirectory(repo, creationDate, tag) ==
    LET parsedDate == ParseRFC1123(creationDate) IN
    OutputDir \o "/" \o repo \o "/" \o FormatDate(parsedDate.t) \o "/" \o tag

\* processBlob on a blob of the store: its error
processStoredBlob(b) ==
    IF b = "bad" THEN Errorf("failed to extract tar.gz blob %s: %w", b)
    ELSE NoErr

\* the mutant lists the blobs of the manifest of the call only
Entries_OwnManifest(store, tag) == store \cap Manifest(tag)

\* the mutant leaves out the blobs whose extraction has failed before
Entries_NotFailedBefore(store, tag) ==
    { b \in store : \A k \in 1..(tidx - 1) : tattempts[<<k, b>>].err = NoErr }

\* os.ReadDir(c.BlobDir) in processBlobs
Entries(store, tag) == store

CurrentCall == tcalls[tidx]

TagsStart ==
    /\ tmode \in {"repo", "repos"}
    /\ \E repo \in TagRepos :
          tcalls \in { [k \in 1..Len(q) |-> Call(repo, q[k], tmode)] :
                          q \in SeqsUpTo(TagNames, IF tmode = "repo" THEN 1 ELSE MaxCalls)
                                \ { <<>> } }
    /\ tcred \in CredStores
    /\ tidx = 1 /\ tpc = "setup" /\ texpired = "no"
    /\ tstore = {} /\ tdone = {} /\ tout = {} /\ tdirs = {} /\ tlog = <<>>
    /\ tattempts = [c \in (1..Len(tcalls)) \X BlobNames |-> [n |-> 0, err |-> NoErr]]

\* the call returns err, and the caller goes on to its next call
Returned(dir, err, last) ==
    /\ tlog' = Append(tlog, [dir |-> dir, err |-> err,
                             expired |-> texpired, last |-> last])
    /\ tidx' = tidx + 1
    /\ tpc' = IF tidx < Len(tcalls) THEN "setup" ELSE "done"
    /\ texpired' = "no"
    /\ tdone' = {}

\* the two minutes of ctx pass while the call is at some step
DeadlineExpires ==
    /\ tpc \in {"setup", "copy", "mkdir", "blobs"}
    /\ texpired = "no"
    /\ texpired' = tpc
    /\ UNCHANGED <<tmode, tcalls, tcred, tidx, tpc, tstore, tdone, tattempts, tout, tlog>>
    /\ UNCHANGED tdirs
    /\ UNCHANGED notTag

SetupRemoteRepository ==
    /\ tpc = "setup"
    /\ LET err == setupRemoteRepository(CurrentCall.repo, tcred) IN
          IF err # NoErr
          THEN Returned("", err, "setup")
          ELSE /\ tpc' = "copy"
               /\ UNCHANGED <<tidx, texpired, tdone, tlog>>
    /\ UNCHANGED <<tmode, tcalls, tcred, tstore, tattempts, tout>>
    /\ UNCHANGED tdirs
    /\ UNCHANGED notTag

\* oras.Copy ends: with every blob of the manifest in the store, or with an
\* error and the blobs it had copied before
CopyTagManifest ==
    /\ tpc = "copy"
    /\ LET err == copyTagManifest(CurrentCall.tag,
                                  Copy(CurrentCall.repo, tcred, texpired)) IN
          IF err # NoErr
          THEN /\ \E copied \in SUBSET Manifest(CurrentCall.tag) :
                     /\ (texpired # "copy" => copied = {})
                     /\ copied # Manifest(CurrentCall.tag)
                     /\ tstore' = tstore \cup copied
               /\ Returned("", err, "copy")
          ELSE /\ tstore' = tstore \cup Manifest(CurrentCall.tag)
               /\ tpc' = "mkdir"
               /\ UNCHANGED <<tidx, texpired, tdone, tlog>>
    /\ UNCHANGED <<tmode, tcalls, tcred, tattempts, tout>>
    /\ UNCHANGED tdirs
    /\ UNCHANGED notTag

\* os.MkdirAll(outputDir) succeeds or fails
CreateOutputDirectory ==
    /\ tpc = "mkdir"
    /\ LET outputDir == createOutputDirectory(CurrentCall.repo,
                            CurrentCall.creationDate, CurrentCall.tag) IN
          \E ok \in BOOLEAN :
              IF ok
              THEN /\ tpc' = "blobs"
                   /\ tdirs' = tdirs \cup { <<tidx, outputDir>> }
                   /\ UNCHANGED <<tidx, texpired, tdone, tlog>>
              ELSE /\ Returned(outputDir,
                               Errorf("failed to create output directory %s: %w",
                                      outputDir), "mkdir")
                   /\ tdirs' = tdirs
    /\ UNCHANGED <<tmode, tcalls, tcred, tstore, tattempts, tout>>
    /\ UNCHANGED notTag

\* HandleBlob on one entry of the blob directory
HandleStoredBlob ==
    /\ tpc = "blobs"
    /\ \E b \in Entries(tstore, CurrentCall.tag) \ tdone :
          LET outputDir == createOutputDirectory(CurrentCall.repo,
                               CurrentCall.creationDate, CurrentCall.tag)
              err == processStoredBlob(b) IN
          /\ tdone' = tdone \cup {b}
          /\ tattempts' = [tattempts EXCEPT ![<<tidx, b>>] =
                                [n |-> @.n + 1, err |-> err]]
          /\ tout' = IF err = NoErr
                     THEN tout \cup { <<outputDir, f>> : f \in BlobFiles(b) }
                     ELSE tout
    /\ UNCHANGED <<tmode, tcalls, tcred, tidx, tpc, texpired, tstore, tlog>>
    /\ UNCHANGED tdirs
    /\ UNCHANGED notTag

\* wg.Wait() is over: the errors are logged and processBlobs returns nil
ProcessBlobsReturns ==
    /\ tpc = "blobs"
    /\ Entries(tstore, CurrentCall.tag) \subseteq tdone
    /\ Returned(createOutputDirectory(CurrentCall.repo,
                    CurrentCall.creationDate, CurrentCall.tag), NoErr, "blobs")
    /\ UNCHANGED <<tmode, tcalls, tcred, tstore, tattempts, tout>>
    /\ UNCHANGED tdirs
    /\ UNCHANGED notTag

NextTag ==
    \/ DeadlineExpires
    \/ SetupRemoteRepository
    \/ CopyTagManifest
    \/ CreateOutputDirectory
    \/ HandleStoredBlob
    \/ ProcessBlobsReturns

TagIdle ==
    /\ tmode = "idle" /\ tcalls = <<>> /\ tcred = "none" /\ tidx = 0
    /\ tpc = "idle" /\ texpired = "no" /\ tstore = {} /\ tdone = {}
    /\ tattempts = <<>> /\ tout = {} /\ tdirs = {} /\ tlog = <<>>

-----------------------------------------------------------------------------
(* Controller.ExtractGzFile: one call on a file system.  A path is its     *)
(* sequence of tokens, as in the scanner; the bytes of a file are the       *)
(* parts of a gzip stream, or plain bytes.                                  *)

\* a gzip stream: the name of its header (<<>> if it has none), the bytes
\* it decompresses to, and what is damaged ("none", "header", "body")
GzipFile(name, data, damage) ==
    [kind |-> "file", gz |-> TRUE, name |-> name, data |-> data, damage |-> damage]

\* a file of plain bytes
PlainFile(data) ==
    [kind |-> "file", gz |-> FALSE, name |-> <<>>, data |-> data, damage |-> "none"]

GzDirectory == [kind |-> "dir"]

\* the header of a gzip stream takes ten bytes and its trailer eight
gzipHeaderAndTrailer == 18

\* os.FileInfo.Size()
FileSize(f) ==
    IF f.gz THEN gzipHeaderAndTrailer + Len(f.name) + Len(f.data) ELSE Len(f.data)

\* the decompressed bytes of the files, and the names in their headers
GzData == { <<>>, <<7, 8>> }
GzNames == { <<>>, <<"orig", ".txt">> }

GzContents ==
    { GzipFile(n, d, dmg) : n \in GzNames, d \in GzData,
                            dmg \in {"none", "header", "body"} }
        \cup { PlainFile(<<>>), PlainFile(<<7>>) }

\* the paths ExtractGzFile is given
GzFilePaths == { <<"art", "/", "a", ".gz">>, <<"art", "/", "b", ".txt", ".gz">> }
\* the directories: "art" holds the .gz file, "o" is another directory, and
\* "m" does not exist
DestDirs == { <<"art">>, <<"o">>, <<"m">> }

\* filepath.Base: the tokens after the last "/"
RECURSIVE Base(_)
Base(path) ==
    IF \E k \in 1..Len(path) : path[k] = "/" THEN Base(Tail(path)) ELSE path

\* filepath.Dir: the tokens before the last "/"
RECURSIVE Dir(_)
Dir(path) ==
    IF path = <<>> \/ path[Len(path)] = "/"
    THEN SubSeq(path, 1, Len(path) - 1)
    ELSE Dir(SubSeq(path, 1, Len(path) - 1))

\* strings.TrimSuffix
TrimSuffix(name, suffix) ==
    IF name # <<>> /\ name[Len(name)] = suffix
    THEN SubSeq(name, 1, Len(name) - 1)
    ELSE name

\* filepath.Join
Join(dir, name) == dir \o <<"/">> \o name

\* the mutant never looks at the name in the header
OutputFileName_FromPath(headerName, gzFilePath) ==
    TrimSuffix(Base(gzFilePath), ".gz")

\* outputFileName
OutputFileName(headerName, gzFilePath) ==
    IF headerName = <<>>
    THEN TrimSuffix(Base(gzFilePath), ".gz")
    ELSE headerName

Exists(fs, path) == path \in DOMAIN fs
IsDir(fs, path) == Exists(fs, path) /\ fs[path].kind = "dir"

\* os.Create succeeds: the directory of the path is there, and no directory
\* is at the path
CanCreate(fs, path) == IsDir(fs, Dir(path)) /\ ~IsDir(fs, path)

\* the file system with f at path
WriteFile(fs, path, f) ==
    [q \in DOMAIN fs \cup {path} |-> IF q = path THEN f ELSE fs[q]]

GzStart ==
    /\ zpath \in GzFilePaths
    /\ zdest \in DestDirs
    /\ \E present \in SUBSET {"gz", "old"}, c \in GzContents :
          zfs = [q \in { <<"art">>, <<"o">> }
                        \cup (IF "gz" \in present THEN {zpath} ELSE {})
                        \cup (IF "old" \in present /\ zdest # <<"m">>
                              THEN {Join(zdest, <<"orig", ".txt">>)} ELSE {})
                    |-> IF q \in { <<"art">>, <<"o">> } THEN GzDirectory
                        ELSE IF q = zpath THEN c
                        ELSE PlainFile(<<9>>)]
    /\ zbefore = zfs
    /\ zname = <<>> /\ zpc = "open" /\ zerr = NoErr

\* os.Open(gzFilePath)
OpenGzFile ==
    /\ zpc = "open"
    /\ IF Exists(zfs, zpath)
       THEN zpc' = "stat" /\ zerr' = zerr
       ELSE zpc' = "returned" /\ zerr' = Errorf("failed to open .gz file: %w", PathText(zpath))
    /\ UNCHANGED <<zpath, zdest, zfs, zbefore, zname>>
    /\ UNCHANGED notGz

\* os.Stat(gzFilePath) and the test of the size
StatGzFile ==
    /\ zpc = "stat"
    /\ zpc' = IF FileSize(zfs[zpath]) = 0 THEN "returned" ELSE "reader"
    /\ UNCHANGED <<zpath, zdest, zfs, zbefore, zname, zerr>>
    /\ UNCHANGED notGz

\* gzip.NewReader reads the header; then outputFileName is chosen
NewGzipReader ==
    /\ zpc = "reader"
    /\ LET f == zfs[zpath] IN
          IF f.gz /\ f.damage # "header"
          THEN /\ zname' = OutputFileName(f.name, zpath)
               /\ zpc' = "create" /\ zerr' = zerr
          ELSE /\ zerr' = Errorf("failed to create gzip reader: %w", PathText(zpath))
               /\ zpc' = "returned" /\ zname' = zname
    /\ UNCHANGED <<zpath, zdest, zfs, zbefore>>
    /\ UNCHANGED notGz

\* os.Create(outputFilePath)
CreateOutputFile ==
    /\ zpc = "create"
    /\ LET outputFilePath == Join(zdest, zname) IN
          IF CanCreate(zfs, outputFilePath)
          THEN /\ zfs' = WriteFile(zfs, outputFilePath, PlainFile(<<>>))
               /\ zpc' = "copy" /\ zerr' = zerr
          ELSE /\ zerr' = Errorf("failed to create output file: %w", PathText(outputFilePath))
               /\ zpc' = "returned" /\ zfs' = zfs
    /\ UNCHANGED <<zpath, zdest, zbefore, zname>>
    /\ UNCHANGED notGz

\* io.Copy(outputFile, gzReader): a damaged body ends the copy with an
\* error after some of the bytes
CopyDecompressed ==
    /\ zpc = "copy"
    /\ LET f == zbefore[zpath]
           outputFilePath == Join(zdest, zname) IN
          IF f.damage = "body"
          THEN /\ \E n \in 0..Len(f.data) :
                     zfs' = WriteFile(zfs, outputFilePath, PlainFile(SubSeq(f.data, 1, n)))
               /\ zerr' = Errorf("failed to write decompressed data to file: %w",
                                 PathText(zpath))
          ELSE /\ zfs' = WriteFile(zfs, outputFilePath, PlainFile(f.data))
               /\ zerr' = zerr
    /\ zpc' = "returned"
    /\ UNCHANGED <<zpath, zdest, zbefore, zname>>
    /\ UNCHANGED notGz

NextGz ==
    \/ OpenGzFile
    \/ StatGzFile
    \/ NewGzipReader
    \/ CreateOutputFile
    \/ CopyDecompressed

\* the uncompress step of the download command on one file that
\* GetGzFilesFromDir has found: ExtractGzFile(file.FilePath, file.DirPath)
UncompressStart ==
    /\ GzStart
    /\ Exists(zfs, zpath)
    /\ zdest = Dir(zpath)

\* os.Remove(file.FilePath), which follows ExtractGzFile whatever it
\* returned; a removal that fails is logged
RemoveGzFile ==
    /\ zpc = "returned"
    /\ \E ok \in BOOLEAN :
          zfs' = IF ok THEN [q \in DOMAIN zfs \ {zpath} |-> zfs[q]] ELSE zfs
    /\ zpc' = "removed"
    /\ UNCHANGED <<zpath, zdest, zbefore, zname, zerr>>
    /\ UNCHANGED notGz

NextUncompress == NextGz \/ RemoveGzFile

GzIdle ==
    /\ zpath = <<>> /\ zdest = <<>> /\ zfs = <<>> /\ zbefore = <<>>
    /\ zname = <<>> /\ zpc = "idle" /\ zerr = NoErr

-----------------------------------------------------------------------------
(* downloadCmd.RunE: one run of the download command.  A flag is the       *)
(* sequence of its tokens; what the run finds outside (the home directory,  *)
(* the file system, the registry) is chosen at each step.                   *)

\* the mutant splits at the last ':'
ParseRepoAndTag_LastColon(repoFlag) ==
    IF repoFlag = <<>> \/ Head(repoFlag) # "quay.io/"
    THEN [repo |-> <<>>, tag |-> <<>>,
          err |-> Errorf("the repository must start with 'quay.io/'", "")]
    ELSE LET rest == Tail(repoFlag)
             colons == { k \in 1..Len(rest) : rest[k] = ":" } IN
         IF colons = {}
         THEN [repo |-> <<>>, tag |-> <<>>,
               err |-> Errorf("tag is missing in the repo flag", "")]
         ELSE LET i == CHOOSE k \in colons : \A l \in colons : k >= l IN
              [repo |-> SubSeq(rest, 1, i - 1),
               tag |-> SubSeq(rest, i + 1, Len(rest)),
               err |-> NoErr]

\* utils.ParseRepoAndTag: strings.HasPrefix, strings.TrimPrefix and
\* strings.SplitN(repoFlag, ":", 2), which splits at the first ':'
ParseRepoAndTag(repoFlag) ==
    IF repoFlag = <<>> \/ Head(repoFlag) # "quay.io/"
    THEN [repo |-> <<>>, tag |-> <<>>,
          err |-> Errorf("the repository must start with 'quay.io/'", "")]
    ELSE LET rest == Tail(repoFlag)
             colons == { k \in 1..Len(rest) : rest[k] = ":" } IN
         IF colons = {}
         THEN [repo |-> <<>>, tag |-> <<>>,
               err |-> Errorf("tag is missing in the repo flag", "")]
         ELSE LET i == CHOOSE k \in colons : \A l \in colons : k <= l IN
              [repo |-> SubSeq(rest, 1, i - 1),
               tag |-> SubSeq(rest, i + 1, Len(rest)),
               err |-> NoErr]

\* a value of --since: a number and a unit; NoSince is the flag not given
SinceFlag(n, unit) == [n |-> n, unit |-> unit]
NoSince == SinceFlag(0, "")

\* parseDuration: the duration in hours; the unit "d" is 24 hours
parseDuration(s) ==
    CASE s.unit = "d" -> [hours |-> s.n * 24, err |-> NoErr]
      [] s.unit = "h" -> [hours |-> s.n, err |-> NoErr]
      [] OTHER -> [hours |-> 0, err |-> Errorf("time: unknown unit", s.unit)]

\* the values of the flags
RepoFlags ==
    { <<>>, <<"quay.io/", "A", ":", "t1">>, <<"quay.io/", "A">>,
      <<"docker.io/", "A", ":", "t1">> }
ReposFlags ==
    { <<>>, << <<"quay.io/", "A">> >>,
      << <<"quay.io/", "A">>, <<"docker.io/", "B">> >> }
SinceFlags == { NoSince, SinceFlag(4, "h"), SinceFlag(2, "d"), SinceFlag(3, "x") }

\* the mutant removes the cache only when the command has succeeded
RemovesCache_OnSuccess(noCache, err) == noCache /\ err = NoErr

\* the deferred function: whether it calls os.RemoveAll
RemovesCache(noCache, err) == noCache

DownloadStart ==
    /\ dopts \in [repo : RepoFlags, repos : ReposFlags, since : SinceFlags,
                  artifactsOutput : {"", "out"}, ociCache : {"", "cache"},
                  noCache : BOOLEAN, uncompressGzFiles : BOOLEAN]
    /\ dcache \in {"absent", "present"}
    /\ dcreated = FALSE /\ dremove = "no" /\ dpc = "validate" /\ derr = NoErr

\* RunE returns err before the deferred function exists
ReturnEarly(err) == dpc' = "returned" /\ derr' = err

\* RunE returns err; the deferred function runs next
ReturnDeferred(err) == dpc' = "deferred" /\ derr' = err

\* the validation of the flags
Validate ==
    /\ dpc = "validate"
    /\ IF dopts.repo # <<>> /\ dopts.repos # <<>>
       THEN ReturnEarly(Errorf("you cannot use both --repo and --repos at the same time", ""))
       ELSE IF dopts.since # NoSince /\ dopts.repos = <<>>
       THEN ReturnEarly(Errorf("the --since flag requires the --repos flag", ""))
       ELSE IF dopts.repos # <<>> /\ dopts.since = NoSince
       THEN ReturnEarly(Errorf("the --repos flag requires the --since flag", ""))
       ELSE IF dopts.repo = <<>> /\ dopts.repos = <<>>
       THEN \E help \in BOOLEAN :
               IF help
               THEN ReturnEarly(Errorf("either --repo or --repos must be specified", ""))
               ELSE ReturnEarly(Errorf("failed to display help: %w", ""))
       ELSE IF dopts.artifactsOutput = ""
       THEN ReturnEarly(Errorf("the --artifacts-output flag is mandatory", ""))
       ELSE dpc' = "cachedir" /\ derr' = derr
    /\ UNCHANGED <<dopts, dcache, dcreated, dremove>>
    /\ UNCHANGED notDownload

\* the default of opts.ociCache
DefaultCache ==
    /\ dpc = "cachedir"
    /\ IF dopts.ociCache # ""
       THEN dpc' = "mkdir" /\ derr' = derr /\ dopts' = dopts
       ELSE \E home \in BOOLEAN :
               IF home
               THEN /\ dopts' = [dopts EXCEPT !.ociCache = "home/.config/qe-tools/cache"]
                    /\ dpc' = "mkdir" /\ derr' = derr
               ELSE /\ ReturnEarly(Errorf("could not determine home directory: %v", ""))
                    /\ dopts' = dopts
    /\ UNCHANGED <<dcache, dcreated, dremove>>
    /\ UNCHANGED notDownload

\* os.MkdirAll(opts.ociCache), and the defer statement
MkdirCache ==
    /\ dpc = "mkdir"
    /\ \E ok \in BOOLEAN :
          IF ok
          THEN /\ dcache' = "present" /\ dcreated' = TRUE
               /\ dpc' = "controller" /\ derr' = derr
          ELSE /\ ReturnEarly(Errorf("could not create cache directory: %v", dopts.ociCache))
               /\ UNCHANGED <<dcache, dcreated>>
    /\ UNCHANGED <<dopts, dremove>>
    /\ UNCHANGED notDownload

\* oci.NewController
CreateController ==
    /\ dpc = "controller"
    /\ \E ok \in BOOLEAN :
          IF ok
          THEN dpc' = "repo" /\ derr' = derr
          ELSE ReturnDeferred(Errorf("failed to create OCI controller with artifactsOutput: '%s' and ociCache: '%s': %v",
                                     dopts.ociCache))
    /\ UNCHANGED <<dopts, dcache, dcreated, dremove>>
    /\ UNCHANGED notDownload

\* --repo: ParseRepoAndTag and ProcessTag, which returns nil or an error or
\* does not return
SingleRepo ==
    /\ dpc = "repo"
    /\ IF dopts.repo = <<>>
       THEN dpc' = "since" /\ derr' = derr
       ELSE LET parsed == ParseRepoAndTag(dopts.repo) IN
            IF parsed.err # NoErr
            THEN ReturnDeferred(parsed.err)
            ELSE \E outcome \in {"ok", "error", "blocked"} :
                    CASE outcome = "ok" -> dpc' = "since" /\ derr' = derr
                      [] outcome = "error" ->
                            ReturnDeferred(Errorf("failed to fetch tag: %v", PathText(parsed.tag)))
                      [] OTHER -> dpc' = "blocked" /\ derr' = derr
    /\ UNCHANGED <<dopts, dcache, dcreated, dremove>>
    /\ UNCHANGED notDownload

\* --since: parseDuration
ParseSince ==
    /\ dpc = "since"
    /\ IF dopts.since # NoSince /\ parseDuration(dopts.since).err # NoErr
       THEN ReturnDeferred(Wrapf("invalid time format for --since: %v", "",
                                 parseDuration(dopts.since).err))
       ELSE dpc' = "repos" /\ derr' = derr
    /\ UNCHANGED <<dopts, dcache, dcreated, dremove>>
    /\ UNCHANGED notDownload

\* --repos: the prefix of each repository, then ProcessRepositories, which
\* returns its errors to be logged or does not return
ManyRepositories ==
    /\ dpc = "repos"
    /\ IF dopts.repos = <<>>
       THEN dpc' = "gz" /\ derr' = derr
       ELSE IF \E k \in 1..Len(dopts.repos) : Head(dopts.repos[k]) # "quay.io/"
       THEN ReturnDeferred(Errorf("the repository must start with 'quay.io/'", ""))
       ELSE \E returns \in BOOLEAN :
               /\ dpc' = IF returns THEN "gz" ELSE "blocked"
               /\ derr' = derr
    /\ UNCHANGED <<dopts, dcache, dcreated, dremove>>
    /\ UNCHANGED notDownload

\* --uncompress-gz-files: GetGzFilesFromDir and the loop over its files,
\* whose failures are logged; then return nil
UncompressGzFiles ==
    /\ dpc = "gz"
    /\ IF ~dopts.uncompressGzFiles
       THEN ReturnDeferred(NoErr)
       ELSE \E walked \in BOOLEAN :
               IF walked
               THEN ReturnDeferred(NoErr)
               ELSE ReturnDeferred(Errorf("failed to extract gz files from artifacts folder: %w",
                                          dopts.artifactsOutput))
    /\ UNCHANGED <<dopts, dcache, dcreated, dremove>>
    /\ UNCHANGED notDownload

\* the deferred function: os.RemoveAll(opts.ociCache), whose failure is
\* logged
Deferred ==
    /\ dpc = "deferred"
    /\ IF RemovesCache(dopts.noCache, derr)
       THEN \E ok \in BOOLEAN :
               /\ dremove' = IF ok THEN "ok" ELSE "failed"
               /\ dcache' = IF ok THEN "absent" ELSE dcache
       ELSE UNCHANGED <<dremove, dcache>>
    /\ dpc' = "returned"
    /\ UNCHANGED <<dopts, dcreated, derr>>
    /\ UNCHANGED notDownload

NextDownload ==
    \/ Validate
    \/ DefaultCache
    \/ MkdirCache
    \/ CreateController
    \/ SingleRepo
    \/ ParseSince
    \/ ManyRepositories
    \/ UncompressGzFiles
    \/ Deferred

DownloadIdle ==
    /\ dopts = <<>> /\ dcache = "absent" /\ dcreated = FALSE
    /\ dremove = "no" /\ dpc = "idle" /\ derr = NoErr


-----------------------------------------------------------------------------
(* utils.ParseRepoAndTag on any repo flag: one call.                       *)

\* the longest flag, in tokens
MaxTokens == 4

FlagTokens == { "quay.io/", "docker.io/", "A", ":", "t" }

ParseStart ==
    /\ pflag \in SeqsUpTo(FlagTokens, MaxTokens)
    /\ pout = <<>>
    /\ ppc = "call"

CallParseRepoAndTag ==
    /\ ppc = "call"
    /\ pout' = ParseRepoAndTag(pflag)
    /\ ppc' = "returned"
    /\ UNCHANGED pflag
    /\ UNCHANGED notParse

NextParse == CallParseRepoAndTag

ParseIdle ==
    /\ pflag = <<>> /\ pout = <<>> /\ ppc = "idle"


-----------------------------------------------------------------------------
(* FailedTestCasesReport.CollectTestFilesData: one call on a report that   *)
(* has just been made.  A range over a Go map comes to the keys in an      *)
(* order that is not specified: each iteration takes any key that is left. *)

\* the most paths in the map
MaxFiles == 3

FilePaths == 1..MaxFiles

OtherFailure           == "otherFailure"
ClusterCreationFailure == "clusterCreationFailure"
TestRunFailure         == "testRunFailure"
TestCaseFailure        == "testCaseFailure"

\* the three file names the call is given
junitFilename               == "junit.xml"
e2eTestRunLogFilename       == "e2e.log"
clusterProvisionLogFilename == "cluster.log"

FileNames == { junitFilename, e2eTestRunLogFilename, clusterProvisionLogFilename, "other.txt" }

FileContents == { "", "x" }

\* the maps: some paths, each with a file name and a content
FilesPathMaps ==
    UNION { [S -> { Artifact(c, n) : c \in FileContents, n \in FileNames }] :
                S \in SUBSET FilePaths }

CollectStart ==
    /\ cfpm \in FilesPathMaps
    /\ cpc = "junit"
    /\ cleft = DOMAIN cfpm
    /\ cE2E = ""
    /\ cCluster = ""
    /\ ctype = ""

\* one iteration of the first loop
JUnitIteration ==
    /\ cpc = "junit"
    /\ \E key \in cleft :
        IF cfpm[key].Filename = junitFilename
        THEN /\ ctype' = TestCaseFailure
             /\ cpc' = "returned"
             /\ UNCHANGED cleft
        ELSE /\ cleft' = cleft \ {key}
             /\ UNCHANGED <<ctype, cpc>>
    /\ UNCHANGED <<cfpm, cE2E, cCluster>>
    /\ UNCHANGED notCollect

\* the first loop ends and the second begins
JUnitLoopEnds ==
    /\ cpc = "junit"
    /\ cleft = {}
    /\ cpc' = "logs"
    /\ cleft' = DOMAIN cfpm
    /\ UNCHANGED <<cfpm, cE2E, cCluster, ctype>>
    /\ UNCHANGED notCollect

\* one iteration of the second loop
LogsIteration ==
    /\ cpc = "logs"
    /\ \E key \in cleft :
        /\ cE2E' = IF cfpm[key].Filename = e2eTestRunLogFilename
                   THEN cfpm[key].Content ELSE cE2E
        /\ cCluster' = IF cfpm[key].Filename = clusterProvisionLogFilename
                       THEN cfpm[key].Content ELSE cCluster
        /\ cleft' = cleft \ {key}
    /\ UNCHANGED <<cfpm, cpc, ctype>>
    /\ UNCHANGED notCollect

\* the three cases after the loops
FailureTypeOf(e2eTestLog, clusterProvisionLog) ==
    IF e2eTestLog # "" THEN TestRunFailure
    ELSE IF clusterProvisionLog # "" THEN ClusterCreationFailure
    ELSE OtherFailure

\* the second loop has ended
Classify ==
    /\ cpc = "logs"
    /\ cleft = {}
    /\ ctype' = FailureTypeOf(cE2E, cCluster)
    /\ cpc' = "returned"
    /\ UNCHANGED <<cfpm, cleft, cE2E, cCluster>>
    /\ UNCHANGED notCollect

NextCollect == JUnitIteration \/ JUnitLoopEnds \/ LogsIteration \/ Classify

CollectIdle ==
    /\ cfpm = <<>> /\ cpc = "idle" /\ cleft = {} /\ cE2E = "" /\ cCluster = ""
    /\ ctype = ""

-----------------------------------------------------------------------------
(* The specifications.                                                     *)

\* ProcessRepositories
Init == ReposStart /\ FetchIdle /\ BlobsIdle /\ ExtractIdle /\ ScanIdle /\ TagIdle /\ GzIdle /\ DownloadIdle /\ ParseIdle /\ CollectIdle
Spec == Init /\ [][Next]_vars

\* ProcessRepositories, also on a list of failing repositories longer than
\* the gate admits
InitReposMany ==
    /\ repositories \in SmallRepoLists \cup { ManyFailingRepos }
    \* a repository whose tag fetch fails never looks at since
    /\ since \in IF repositories = ManyFailingRepos THEN {3} ELSE SinceValues
    /\ mpc = "loop" /\ spawned = 0 /\ wg = 0 /\ sem = 0
    /\ errorsChan = <<>> /\ errors = <<>>
    /\ rpc = [i \in Tasks |-> "new"]
    /\ rtags = [i \in Tasks |-> <<>>]
    /\ ridx = [i \in Tasks |-> 0]
    /\ rerr = [i \in Tasks |-> NoErr]
    /\ pulled = [i \in Tasks |-> <<>>]
    /\ FetchIdle /\ BlobsIdle /\ ExtractIdle /\ ScanIdle /\ TagIdle /\ GzIdle /\ DownloadIdle /\ ParseIdle /\ CollectIdle
SpecReposMany == InitReposMany /\ [][Next]_vars

\* ProcessRepositories, also on a list that names a repository twice
RepeatedRepos == <<"A", "A">>

InitReposRepeat ==
    /\ repositories \in SmallRepoLists \cup { RepeatedRepos }
    /\ since \in SinceValues
    /\ mpc = "loop" /\ spawned = 0 /\ wg = 0 /\ sem = 0
    /\ errorsChan = <<>> /\ errors = <<>>
    /\ rpc = [i \in Tasks |-> "new"]
    /\ rtags = [i \in Tasks |-> <<>>]
    /\ ridx = [i \in Tasks |-> 0]
    /\ rerr = [i \in Tasks |-> NoErr]
    /\ pulled = [i \in Tasks |-> <<>>]
    /\ FetchIdle /\ BlobsIdle /\ ExtractIdle /\ ScanIdle /\ TagIdle /\ GzIdle /\ DownloadIdle /\ ParseIdle /\ CollectIdle
SpecReposRepeat == InitReposRepeat /\ [][Next]_vars

\* FetchTags
InitFetch == FetchStart /\ ReposIdle /\ BlobsIdle /\ ExtractIdle /\ ScanIdle /\ TagIdle /\ GzIdle /\ DownloadIdle /\ ParseIdle /\ CollectIdle
SpecFetch == InitFetch /\ [][NextFetch]_vars
\* FetchTags, which goes on with its loop while it has not returned
SpecFetchFair == InitFetch /\ [][NextFetch]_vars /\ WF_vars(NextFetch)

\* processBlobs on a small blob directory
InitBlobs == BlobsStart(SmallBlobDirs) /\ FetchIdle /\ ReposIdle /\ ExtractIdle /\ ScanIdle /\ TagIdle /\ GzIdle /\ DownloadIdle /\ ParseIdle /\ CollectIdle
SpecBlobs == InitBlobs /\ [][NextBlobs]_vars

\* processBlobs, also on directories with more files than the gate admits
InitBlobsMany ==
    BlobsStart(SmallBlobDirs \cup ManyBlobDirs) /\ FetchIdle /\ ReposIdle /\ ExtractIdle /\ ScanIdle /\ TagIdle /\ GzIdle /\ DownloadIdle /\ ParseIdle /\ CollectIdle
SpecBlobsMany == InitBlobsMany /\ [][NextBlobs]_vars

\* extractTarGz, twice on one destination directory
InitExtract == ExtractStart /\ FetchIdle /\ ReposIdle /\ BlobsIdle /\ ScanIdle /\ TagIdle /\ GzIdle /\ DownloadIdle /\ ParseIdle /\ CollectIdle
SpecExtract == InitExtract /\ [][NextExtract]_vars

\* extractTarGz on archives whose entry names leave the destination or are absolute
InitExtractNames ==
    ExtractNamesStart /\ FetchIdle /\ ReposIdle /\ BlobsIdle /\ ScanIdle /\ TagIdle /\ GzIdle /\ DownloadIdle /\ ParseIdle /\ CollectIdle
SpecExtractNames == InitExtractNames /\ [][NextExtract]_vars

\* ArtifactScanner.processExtractedFiles
InitScan == ScanStart /\ FetchIdle /\ ReposIdle /\ BlobsIdle /\ ExtractIdle /\ TagIdle /\ GzIdle /\ DownloadIdle /\ ParseIdle /\ CollectIdle
SpecScan == InitScan /\ [][NextScan]_vars

\* Controller.ProcessTag
InitTag ==
    TagsStart /\ FetchIdle /\ ReposIdle /\ BlobsIdle /\ ExtractIdle /\ ScanIdle /\ GzIdle /\ DownloadIdle /\ ParseIdle /\ CollectIdle
SpecTag == InitTag /\ [][NextTag]_vars

\* Controller.ExtractGzFile
InitGz ==
    GzStart /\ FetchIdle /\ ReposIdle /\ BlobsIdle /\ ExtractIdle /\ ScanIdle /\ TagIdle /\ DownloadIdle /\ ParseIdle /\ CollectIdle
SpecGz == InitGz /\ [][NextGz]_vars

\* one call of CollectTestFilesData
InitCollect ==
    CollectStart /\ FetchIdle /\ ReposIdle /\ BlobsIdle /\ ExtractIdle /\ ScanIdle /\ TagIdle /\ GzIdle /\ DownloadIdle /\ ParseIdle
SpecCollect == InitCollect /\ [][NextCollect]_vars

\* one call of utils.ParseRepoAndTag
InitParse ==
    ParseStart /\ FetchIdle /\ ReposIdle /\ BlobsIdle /\ ExtractIdle /\ ScanIdle /\ TagIdle /\ GzIdle /\ DownloadIdle /\ CollectIdle
SpecParse == InitParse /\ [][NextParse]_vars

\* the uncompress step of downloadCmd.RunE on one .gz file
InitUncompress ==
    UncompressStart /\ FetchIdle /\ ReposIdle /\ BlobsIdle /\ ExtractIdle /\ ScanIdle /\ TagIdle /\ DownloadIdle /\ ParseIdle /\ CollectIdle
SpecUncompress == InitUncompress /\ [][NextUncompress]_vars

\* downloadCmd.RunE
InitDownload ==
    DownloadStart /\ FetchIdle /\ ReposIdle /\ BlobsIdle /\ ExtractIdle /\ ScanIdle /\ TagIdle /\ GzIdle /\ ParseIdle /\ CollectIdle
SpecDownload == InitDownload /\ [][NextDownload]_vars


-----------------------------------------------------------------------------
(* Properties of FetchTags, checked under SpecFetch.                       *)

\* a request that succeeded: transport, status 200 and a decodable body
Succeeds(resp) == resp.net /\ resp.code = 200 /\ resp.decodable

\* p1 ++ ... ++ pk of the served pages
RECURSIVE ConcatPages(_, _)
ConcatPages(srv, k) ==
    IF k = 0 THEN <<>> ELSE ConcatPages(srv, k - 1) \o srv[k].tags

\* page n is the first page with zero tags and requests 1..n all succeed
FirstEmptyPage(srv, n) ==
    /\ n \in 1..(Len(srv) + 1)
    /\ \A j \in 1..(n - 1) : Succeeds(srv[j]) /\ Len(srv[j].tags) > 0
    /\ n <= Len(srv) => Succeeds(srv[n]) /\ Len(srv[n].tags) = 0

\* page k is the first request that fails: every earlier page succeeded
\* and held tags
FirstFailure(srv, k) ==
    /\ k \in 1..Len(srv)
    /\ ~Succeeds(srv[k])
    /\ \A j \in 1..(k - 1) : Succeeds(srv[j]) /\ Len(srv[j].tags) > 0

\* C1: when page n is the first empty page and every request succeeds,
\* FetchTags returns exactly p1 ++ ... ++ p(n-1), in server order, nothing
\* re-sorted, dropped or duplicated, and no error.
C1_FetchTagsConcatenatesPages ==
    \A n \in 1..(Len(fsrv) + 1) :
        (fpc = "returned" /\ FirstEmptyPage(fsrv, n))
            => fret = [tags |-> ConcatPages(fsrv, n - 1), err |-> NoErr]

\* C1 witness: a call has returned two non-empty pages followed by an empty
\* one, the first page out of name order and the second repeating a tag.
C1_Witness ==
    /\ fpc = "returned"
    /\ FirstEmptyPage(fsrv, 3)
    /\ Len(fret.tags) = 4
    /\ fret.tags[1].Name = "v2" /\ fret.tags[2].Name = "v1"
    /\ fret.tags[3] = fret.tags[4]

\* C2: when a request fails, FetchTags returns an error and no tag, also
\* after pages that were fetched; a status other than 200 gives the error
\* "failed to fetch tags: <status>".
C2_FetchTagsFailsWhole ==
    \A k \in 1..Len(fsrv) :
        (fpc = "returned" /\ FirstFailure(fsrv, k))
            => /\ fret.tags = <<>>
               /\ fret.err # NoErr
               /\ (fsrv[k].net /\ fsrv[k].code # 200)
                    => fret.err = Errorf("failed to fetch tags: %s",
                                         StatusText(fsrv[k].code))

\* C2 witness: the third request was answered 404 after two pages of tags
\* had been fetched, and the call has returned.
C2_Witness ==
    /\ fpc = "returned"
    /\ FirstFailure(fsrv, 3)
    /\ fsrv[3] = NotFound
    /\ Len(ftags) = 4
    /\ fret.err # NoErr

-----------------------------------------------------------------------------
(* Properties of ProcessRepositories, checked under Spec.                  *)

\* the tags the API serves for repo up to its first empty page, when every
\* request succeeds
ServedTags(repo) ==
    LET srv == Quay(repo)
        n == CHOOSE m \in 1..(Len(srv) + 1) : FirstEmptyPage(srv, m)
    IN  ConcatPages(srv, n - 1)

\* the tag fetch of repo fails
FetchFails(repo) == \E k \in 1..Len(Quay(repo)) : FirstFailure(Quay(repo), k)

\* the tag is to be pulled: it is younger than since and larger than 2 bytes
ShouldPull(tag) ==
    /\ tag.LastModified.layout = "RFC1123"
    /\ NowT - tag.LastModified.t < since
    /\ tag.Size > 2

BadDate(tag) == tag.LastModified.layout # "RFC1123"

\* the tags that come before the first tag whose date does not parse
BeforeBadDate(tags) ==
    LET bad == { k \in 1..Len(tags) : BadDate(tags[k]) }
        first == IF bad = {} THEN Len(tags) + 1
                 ELSE CHOOSE k \in bad : \A j \in bad : k <= j
    IN  SubSeq(tags, 1, first - 1)

\* the tags of the ProcessTag calls a task made, in order
PulledTags(i) == [k \in 1..Len(pulled[i]) |-> pulled[i][k].tag]

\* how many of the returned errors name repo
ErrorsNaming(repo) ==
    Cardinality({ k \in 1..Len(errors) : errors[k][1].arg = repo })

\* C3: ProcessTag is never invoked for a tag whose age is at least since, or
\* whose size is at most 2 bytes.
C3_NoPullOfOldOrTinyTag ==
    \A i \in Tasks : \A k \in 1..Len(pulled[i]) :
        LET tag == pulled[i][k].tag IN
        /\ tag.LastModified.layout = "RFC1123"
        /\ ~(NowT - tag.LastModified.t >= since)
        /\ ~(tag.Size <= 2)

\* C3 witness: with since = 1 a task has gone through four fetched tags, one
\* exactly since old, one older and one of exactly 2 bytes, and has pulled
\* only the remaining one.
C3_Witness ==
    \E i \in Tasks :
        /\ rpc[i] = "done" /\ since = 1
        /\ rtags[i] = <<TagNow, TagOld, TagTiny, TagDay>>
        /\ PulledTags(i) = <<TagNow>>

\* C4 as stated: the returned list holds exactly one error for each
\* repository whose tag fetch failed and none for the others, and every
\* repository whose fetch succeeded has pulled all its retained tags.
C4_Original ==
    mpc = "returned" =>
        \A i \in Tasks :
            LET repo == repositories[i] IN
            /\ ErrorsNaming(repo) = (IF FetchFails(repo) THEN 1 ELSE 0)
            /\ ~FetchFails(repo) =>
                    PulledTags(i) = SelectSeq(ServedTags(repo), ShouldPull)

\* C4, amended: the returned list holds exactly one error for each
\* repository whose tag fetch failed or whose tag list holds a date that
\* does not parse, naming it, and none for the others; every repository
\* whose fetch succeeded has pulled its retained tags up to the first such
\* date (all of them when there is none), whatever the other repositories
\* did.
C4_RepositoryFailuresIsolated ==
    mpc = "returned" =>
        \A i \in Tasks :
            LET repo == repositories[i]
                fails == \/ FetchFails(repo)
                         \/ \E k \in 1..Len(ServedTags(repo)) :
                                BadDate(ServedTags(repo)[k])
            IN
            /\ ErrorsNaming(repo) = (IF fails THEN 1 ELSE 0)
            /\ Len(errors) <= Len(repositories)
            /\ ~FetchFails(repo) =>
                    PulledTags(i) =
                        SelectSeq(BeforeBadDate(ServedTags(repo)), ShouldPull)

\* C4 witness: ProcessRepositories has returned for A, B and C, where the
\* fetch of B fails; the only error names B, and A and C pulled their tags.
C4_Witness ==
    /\ mpc = "returned"
    /\ repositories = <<"A", "B", "C">>
    /\ since = 3
    /\ Len(errors) = 1 /\ errors[1][1].arg = "B"
    /\ PulledTags(1) = <<TagNow>>
    /\ PulledTags(3) = <<TagNow, TagDay>>

\* C5 as stated: a repository task that has ended has invoked ProcessTag for
\* every retained tag of the fetched list.
C5_Original ==
    \A i \in Tasks :
        rpc[i] = "done" =>
            \A k \in 1..Len(rtags[i]) :
                ShouldPull(rtags[i][k]) =>
                    \E c \in 1..Len(pulled[i]) : pulled[i][c].tag = rtags[i][k]

\* C5, amended: a repository task that has ended has invoked ProcessTag, in
\* list order, for exactly the retained tags that no tag with an unparsable
\* date precedes in the fetched list; a ProcessTag failure stops nothing.
C5_PullFailureDoesNotStopRepository ==
    \A i \in Tasks :
        rpc[i] = "done" =>
            PulledTags(i) = SelectSeq(BeforeBadDate(rtags[i]), ShouldPull)

\* C5 witness: a task has ended whose first ProcessTag call failed and whose
\* later retained tag was pulled all the same, beside another repository
\* whose tag was pulled.
C5_Witness ==
    /\ Len(repositories) = 2
    /\ \A i \in Tasks : rpc[i] = "done"
    /\ \E i \in Tasks :
        /\ Len(pulled[i]) = 2
        /\ pulled[i][1].err # NoErr
        /\ pulled[i][2].err = NoErr
    /\ \E j \in Tasks : Len(pulled[j]) = 1 /\ pulled[j][1].err = NoErr

\* C6 as stated: when ProcessRepositories has returned, every ProcessTag
\* call that failed has an entry in the returned list of failures.
C6_Original ==
    mpc = "returned" =>
        \A i \in Tasks : \A k \in 1..Len(pulled[i]) :
            pulled[i][k].err # NoErr =>
                \E e \in 1..Len(errors) : \E f \in 1..Len(errors[e]) :
                    errors[e][f].arg = pulled[i][k].tag.Name

\* C7 as stated: at most maxConcurrent tasks execute processRepository, each
\* holds exactly one slot until it ends, and a dispatched repository that is
\* not yet admitted is admitted later: either a slot is free, or the program
\* can still take a step (no run stops with a repository waiting).
C7_Original ==
    /\ Cardinality({ i \in Tasks : rpc[i] \in {"tags", "report"} }) <= maxConcurrent
    /\ sem = Cardinality({ i \in Tasks : rpc[i] \in {"tags", "report"} })
    /\ \A i \in Tasks :
            rpc[i] = "wait" => (sem < maxConcurrent \/ ENABLED Next)

-----------------------------------------------------------------------------
(* processBlobs: admission, deadlines, completion.                         *)

\* the extraction work in progress: the HandleBlob goroutines that hold a
\* slot, and the extraction goroutines that are still decompressing
ActiveExtractions ==
    { i \in Blobs : bpc[i] \in {"select", "send", "return"} \/ gpc[i] = "running" }

TimeoutError(i) == Errorf("timeout while extracting blob %s", BlobPath(i))

\* the errors, returned, in flight or logged, that name the path of blob i
ErrorsOfPath(i) ==
    { e \in berrors \cup blog \cup { berr[j] : j \in Blobs } :
        e # NoErr /\ e[1].arg = BlobPath(i) }

\* C8: at most ten blob extraction tasks are active at any time, the blobs
\* whose extraction has timed out included.
C8_Original ==
    Cardinality(ActiveExtractions) <= maxConcurrentBlobs

\* C9: a blob whose extraction outlasts its deadline, and that blob alone,
\* gets a timeout error that names its path: no error is attributed to a
\* well-formed archive whose deadline has not expired, such an archive is
\* extracted to the end, and when processBlobs returns the log holds the
\* timeout error of each expired blob and of no other.
C9_TimeoutIsScopedToItsBlob ==
    /\ \A i \in btimedout :
            /\ berr[i] = TimeoutError(i)
            /\ ErrorsOfPath(i) = { TimeoutError(i) }
    /\ \A j \in Blobs \ btimedout :
            /\ berr[j] # TimeoutError(j)
            /\ \A i \in btimedout : berr[j] # TimeoutError(i)
            /\ (isTarGzBlob(j) /\ blobDir[j].valid) =>
                    /\ berr[j] = NoErr
                    /\ ErrorsOfPath(j) = {}
    /\ bmain = "returned" =>
            /\ \A i \in btimedout : TimeoutError(i) \in blog
            /\ \A j \in Blobs \ btimedout :
                    /\ TimeoutError(j) \notin blog
                    /\ (isTarGzBlob(j) /\ blobDir[j].valid) =>
                            /\ gpc[j] = "finished"
                            /\ bpc[j] = "done"

\* the first blob has timed out and the second, a well-formed archive
\* started along with it, has been extracted; processBlobs has returned
C9_Witness ==
    /\ bmain = "returned"
    /\ Len(blobDir) = 2
    /\ btimedout = {1}
    /\ blog = { TimeoutError(1) }
    /\ blobDir[2] = TarGzBlob
    /\ gpc[2] = "finished"
    /\ bpc[2] = "done"

\* C10: the blob stage always completes, whatever the number of blobs that
\* fail: a HandleBlob goroutine that has an error to send finds room in the
\* channel errors, which processBlobs reads only after every goroutine has
\* finished.
C10_Original ==
    \A i \in Blobs : bpc[i] = "send" => Cardinality(berrors) < errorsBuffer

-----------------------------------------------------------------------------
(* ProcessRepositories: the collection of the errors.                      *)

\* how many times e occurs in the sequence q
Occurrences(q, e) == Cardinality({ k \in 1..Len(q) : q[k] = e })

\* the error the task of repositories[i] has produced
ProducedError(i) == RepositoryError(repositories, repositories[i], rerr[i])

\* C11: ProcessRepositories returns only after every dispatched task has
\* finished, a task that has an error to report always finds room in
\* errorsChan, and the list returned holds each error the tasks of the run
\* have produced, as many times as it was produced, and nothing else.
C11_ErrorsCollectedAfterAllTasks ==
    /\ \A i \in Tasks : rpc[i] = "report" => Len(errorsChan) < Len(repositories)
    /\ mpc = "returned" =>
            /\ spawned = Len(repositories)
            /\ \A i \in Tasks : rpc[i] = "done"
            /\ Len(errors) = Cardinality({ i \in Tasks : rerr[i] # NoErr })
            /\ \A i \in Tasks : rerr[i] # NoErr =>
                    Occurrences(errors, ProducedError(i)) =
                        Cardinality({ j \in Tasks : rerr[j] # NoErr
                                        /\ ProducedError(j) = ProducedError(i) })

\* eleven failing repositories: the run has returned their eleven errors
C11_Witness ==
    /\ mpc = "returned"
    /\ Len(repositories) > maxConcurrent
    /\ Len(errors) = Len(repositories)
    /\ \A i \in Tasks : rpc[i] = "done" /\ rerr[i] # NoErr

-----------------------------------------------------------------------------
(* processBlob: which files are extracted.                                 *)

\* a non-empty file that starts with 0x1F 0x8B or is named *.tar.gz
IsArchiveFile(e) ==
    /\ ~e.isDir
    /\ e.size > 0
    /\ \/ (Len(e.head) = 2 /\ e.head[1] = 31 /\ e.head[2] = 139)
       \/ e.ext = ".tar.gz"

\* the HandleBlob goroutine of entry i has run processBlob
Processed(i) == bpc[i] \in {"select", "send", "return", "done"}

\* C15: processBlob starts the extraction of a file if and only if the file
\* is not empty and starts with 0x1F 0x8B or has a path ending in .tar.gz;
\* for any other file no extraction is ever started.
C15_ExtractsExactlyArchives ==
    \A i \in Blobs :
        /\ Processed(i) => (gpc[i] # "none" <=> IsArchiveFile(blobDir[i]))
        /\ ~IsArchiveFile(blobDir[i]) => gpc[i] = "none" /\ extractErr[i] = <<>>

\* a directory of a file with the suffix only and a file of one byte 0x1F:
\* the first has been extracted (and failed), the second ignored
C15_Witness ==
    /\ blobDir = <<SuffixBlob, OneByteBlob>>
    /\ bmain = "returned"
    /\ gpc = <<"finished", "none">>
    /\ Cardinality(blog) = 1

\* C16: an empty file of the blob directory is not extracted and produces no
\* per-blob error.
C16_Original ==
    \A i \in Blobs :
        (~blobDir[i].isDir /\ blobDir[i].size = 0) =>
            /\ gpc[i] = "none"
            /\ berr[i] = NoErr
            /\ ErrorsOfPath(i) = {}

\* C16 as the code has it: an empty file is not extracted, and processBlob
\* returns for it the error "blob <path> is empty, skipping", which HandleBlob
\* sends to errors and processBlobs logs when it returns.
C16_EmptyBlobSkippedWithError ==
    \A i \in Blobs :
        (~blobDir[i].isDir /\ blobDir[i].size = 0) =>
            /\ gpc[i] = "none"
            /\ Processed(i) =>
                    berr[i] = Errorf("blob %s is empty, skipping", BlobPath(i))
            /\ bmain = "returned" =>
                    Errorf("blob %s is empty, skipping", BlobPath(i)) \in blog

\* an empty file next to an archive: processBlobs has returned, the archive is
\* extracted and the log holds the error of the empty file
C16_Witness ==
    /\ blobDir = <<EmptyBlob, TarGzBlob>>
    /\ bmain = "returned"
    /\ blog = { Errorf("blob %s is empty, skipping", BlobPath(1)) }
    /\ gpc = <<"none", "finished">>

-----------------------------------------------------------------------------
(* extractTarGz: what it leaves in the destination directory.              *)

\* the second call is a re-extraction and has started
SecondStarted == xmode = "again" /\ xpc[2] # "open"

\* the first call runs alone: the second has not started
FirstAlone == xmode = "again" /\ xpc[2] = "open"

\* err is the error of createFileFromTar for path p
IsFileError(err, p) ==
    /\ err # NoErr
    /\ err[1].msg \in {"failed to create file %s: %w", "failed to write file %s: %w"}
    /\ err[1].arg = PathString(p)

\* the entries call t has gone through
Passed(t) == { j \in 1..Len(xarch[t].entries) : j < xidx[t] }

\* the error handleTarEntry returns for an entry of an unsupported type
Unsupported(typeflag) == Errorf("unsupported tar entry: %c", typeflag)

\* C12: during and after a second extraction of the same archive into the same
\* directory, every regular file that was there when it started has the
\* content it had then, and the second extraction returns no error of
\* creating or writing such a file.
C12_ReExtractionKeepsFiles ==
    SecondStarted =>
        \A p \in Paths : xbefore[p].kind = "file" =>
            /\ xfs[p] = xbefore[p]
            /\ ~IsFileError(xerr[2], p)

\* the archive has been extracted twice without error: the first call wrote
\* its files, the second wrote nothing and left the directory as it was
C12_Witness ==
    /\ xmode = "again"
    /\ xpc = [t \in Calls |-> "done"]
    /\ xerr = [t \in Calls |-> NoErr]
    /\ Cardinality(xwritten[1]) = 2
    /\ xwritten[2] = {}
    /\ xfs = xbefore

\* C13: a regular file, once created and written, is never truncated or
\* rewritten by a later or concurrent extraction.
C13_Original ==
    [][ \A p \in Paths :
            ( /\ xfs[p].kind = "file"
              /\ ~\E t \in Calls : xpc[t] = "copy" /\ DestPath(t) = p )
            => xfs'[p] = xfs[p] ]_vars

\* C14: the sets of paths written by two extractions that run concurrently
\* are disjoint.
C14_Original ==
    xmode = "concurrent" => xwritten[1] \cap xwritten[2] = {}

\* C17: a directory entry that has been handled has left a directory at its
\* path, with its parents; a call returns the error of an unsupported entry
\* exactly when it has reached an entry that is neither a directory nor a
\* regular file, whatever the other call reads; it has gone through no entry
\* after that one, and what it extracted before it is still there.
C17_UnsupportedEntryFailsItsBlobOnly ==
    \A t \in Calls :
        /\ \A j \in Passed(t) :
                LET e == xarch[t].entries[j] IN
                /\ e.Typeflag \in {TypeDir, TypeReg}
                /\ e.Typeflag = TypeDir =>
                        \A k \in 1..Len(e.Name) : IsDirectory(xfs, SubSeq(e.Name, 1, k))
                /\ e.Typeflag = TypeReg => xfs[e.Name].kind # "none"
        /\ xwritten[t] \subseteq
                { xarch[t].entries[j].Name :
                    j \in { i \in 1..Len(xarch[t].entries) : i <= xidx[t] } }
        /\ xpc[t] = "done" =>
                ( (\E f \in {TypeSymlink} : xerr[t] = Unsupported(f))
                  <=> /\ xidx[t] \in 1..Len(xarch[t].entries)
                      /\ ~HeaderUnreadable(xarch[t], xidx[t])
                      /\ CurrentEntry(t).Typeflag \notin {TypeDir, TypeReg} )

\* two blobs extracted concurrently: the first has failed at its symbolic
\* link after extracting a file, the second has been extracted without error
C17_Witness ==
    /\ xmode = "concurrent"
    /\ xpc = [t \in Calls |-> "done"]
    /\ xarch[1].entries = <<TarEntry(TypeReg, PathF, "a"), TarEntry(TypeSymlink, PathF, "")>>
    /\ xarch[1].damage = Sound
    /\ xerr[1] = Unsupported(TypeSymlink)
    /\ xfs[PathF] = RegularFile("a")
    /\ xarch[2].entries = <<TarEntry(TypeDir, PathDF, "")>>
    /\ xerr[2] = NoErr
    /\ xfs[PathDF] = Directory /\ xfs[PathD] = Directory

\* C18: a damaged archive makes the extraction return an error, and nothing
\* is written after the damage has been met.
C18_Original ==
    \A t \in Calls :
        (xpc[t] = "done" /\ xarch[t].damage # Sound) =>
            /\ xerr[t] # NoErr
            /\ xwritten[t] \subseteq
                    { xarch[t].entries[j].Name :
                        j \in { i \in 1..Len(xarch[t].entries) : i <= xidx[t] } }

\* C19: after extractTarGz has returned nil on an undamaged archive, every
\* regular-file entry whose path held no file before the extraction is a
\* file with the content of the entry.
C19_Original ==
    (FirstAlone /\ xpc[1] = "done" /\ xerr[1] = NoErr /\ xarch[1].damage = Sound) =>
        \A j \in 1..Len(xarch[1].entries) :
            LET e == xarch[1].entries[j] IN
            (e.Typeflag = TypeReg /\ xbefore[e.Name].kind # "file") =>
                xfs[e.Name] = RegularFile(e.content)

\* q is p or a path below p
IsAtOrBelow(q, p) == Len(q) >= Len(p) /\ SubSeq(q, 1, Len(p)) = p

\* C19 as the code has it: what is at a path first wins.  After extractTarGz
\* has returned nil on an undamaged archive, every regular-file entry whose
\* path held nothing before the extraction, and such that no earlier entry of
\* the archive names that path or a path below it, is a file with the content
\* of the entry.
C19_FirstEntryOfAPathIsExtracted ==
    (FirstAlone /\ xpc[1] = "done" /\ xerr[1] = NoErr /\ xarch[1].damage = Sound) =>
        \A j \in 1..Len(xarch[1].entries) :
            LET e == xarch[1].entries[j] IN
            ( /\ e.Typeflag = TypeReg
              /\ xbefore[e.Name].kind = "none"
              /\ \A i \in 1..(j - 1) :
                    ~IsAtOrBelow(xarch[1].entries[i].Name, e.Name) )
            => xfs[e.Name] = RegularFile(e.content)

\* a directory entry d and a file entry d/f, extracted into an empty
\* directory
C19_Witness ==
    /\ FirstAlone /\ xpc[1] = "done" /\ xerr[1] = NoErr
    /\ xarch[1] = Archive(<<TarEntry(TypeDir, PathD, ""), TarEntry(TypeReg, PathDF, "a")>>, Sound)
    /\ xbefore = [q \in Paths |-> Nothing]
    /\ xfs[PathDF] = RegularFile("a")

-----------------------------------------------------------------------------
(* ArtifactScanner: the index.                                             *)

\* the nodes of the tree
TreeNodes == { stree[k] : k \in 1..Len(stree) }

\* C20: after a scan without error, the index has an entry for a path if and
\* only if the path is a regular file of the tree that matches a pattern, and
\* the entry holds the bare name and the content of the file.
C20_Original ==
    (spc = "returned" /\ serr = NoErr) =>
        /\ DOMAIN smap \subseteq { n.path : n \in TreeNodes }
        /\ \A n \in TreeNodes :
            /\ n.path \in DOMAIN smap
                    <=> (n.kind = "file" /\ isRequiredFile(spatterns, n.path))
            /\ n.path \in DOMAIN smap =>
                    smap[n.path] = Artifact(n.content, BaseName(n.path))

\* the temporary directory Run has created for the artifact
artifactDirPath == RootNode.path

\* the path of a node from the root of the extracted artifact
RelativePath(path) == SubSeq(path, Len(artifactDirPath) + 2, Len(path))

\* C21: every key of FilesPathMap is the path of a file from the root of the
\* extracted artifact, without the temporary directory, and an entry is there
\* when a pattern matches that path.
C21_Original ==
    /\ \A key \in DOMAIN smap :
            \E n \in TreeNodes : n.path # artifactDirPath /\ key = RelativePath(n.path)
    /\ (spc = "returned" /\ serr = NoErr) =>
            \A n \in TreeNodes :
                (n.kind = "file" /\ isRequiredFile(spatterns, RelativePath(n.path)))
                    => \E key \in DOMAIN smap : smap[key].Content = n.content

-----------------------------------------------------------------------------
(* ProcessRepositories: how often a tag is processed.                      *)

\* C22: in one run ProcessTag is invoked at most once for a pair of a
\* repository and a tag.
C22_Original ==
    \A i \in Tasks, j \in Tasks :
        \A k \in 1..Len(pulled[i]), l \in 1..Len(pulled[j]) :
            (repositories[i] = repositories[j]
                /\ pulled[i][k].tag.Name = pulled[j][l].tag.Name)
                => (i = j /\ k = l)

-----------------------------------------------------------------------------
(* Properties of ProcessTag, checked under SpecTag.                        *)

\* err is the error of a deadline that expired
IsTimeoutError(err) ==
    \E k \in 1..Len(err) : err[k] = DeadlineExceeded[1]

\* C23: a ProcessTag call whose two-minute deadline expired at any of its
\* steps (remote setup, copy, output directory creation, blob extraction) is
\* aborted: it returns an error, and a call that no other failure ended
\* returns the timeout error.
C23_Original ==
    \A k \in 1..Len(tlog) :
        tlog[k].expired # "no" =>
            /\ tlog[k].err # NoErr
            /\ tlog[k].last \in {"copy", "blobs"} => IsTimeoutError(tlog[k].err)

\* how often call k has extracted blob b
AttemptsOf(k, b) == tattempts[<<k, b>>].n

\* the extraction of blob b failed in a call before call k
FailedBefore(k, b) ==
    \E j \in 1..(k - 1) : tattempts[<<j, b>>].err # NoErr

DirectoryOfTag(repo, tag) ==
    OutputDir \o "/" \o repo \o "/"
        \o FormatDate(ParseRFC1123(LastModified(tag)).t) \o "/" \o tag

\* C25: a ProcessTag call that reaches the creation of its output directory
\* uses outputRoot/repo/D/tag, with D the date of the time the tag was last
\* modified.
C25_Original ==
    \A k \in 1..Len(tlog) :
        tlog[k].last \in {"mkdir", "blobs"} =>
            tlog[k].dir = DirectoryOfTag(tcalls[k].repo, tcalls[k].tag)

\* call j has copied its manifest and blobs into the store
CopiedBy(j) == tlog[j].last \in {"mkdir", "blobs"}

\* C26: a ProcessTag call that has processed the blobs has extracted, into
\* its own output directory, the archive blobs of every call before it on
\* the same store as well as its own.
C26_ExtractsWholeBlobDirectory ==
    \A k \in 1..Len(tlog), j \in 1..Len(tlog) :
        (j <= k /\ tlog[k].last = "blobs" /\ CopiedBy(j)) =>
            \A b \in Manifest(tcalls[j].tag) :
                \A f \in BlobFiles(b) : <<tlog[k].dir, f>> \in tout

\* ProcessTag of t2 has returned after ProcessTag of t1, and its output
\* directory holds the file of the archive blob of t1
C26_Witness ==
    /\ Len(tlog) = 2
    /\ tcalls[1].tag = "t1" /\ tcalls[2].tag = "t2"
    /\ CopiedBy(1) /\ tlog[2].last = "blobs"
    /\ tlog[2].dir # tlog[1].dir
    /\ <<tlog[2].dir, "fx">> \in tout

\* C28: with a credential store that holds no credentials, no ProcessTag
\* call ends at the remote setup: every call goes on to the manifest copy,
\* and the only error of a call that ends at the copy is the error of the copy.
C28_MissingCredentialsNotFatal ==
    tcred = "none" =>
        \A k \in 1..Len(tlog) :
            /\ tlog[k].last # "setup"
            /\ tlog[k].last = "copy" =>
                  tlog[k].err[1].msg = "failed to copy manifest for tag %s: %w"

\* without credentials, a call on a public repository has copied the
\* manifest and returned success
C28_Witness ==
    /\ tcred = "none"
    /\ \E k \in 1..Len(tlog) :
          /\ tlog[k].last = "blobs" /\ tlog[k].err = NoErr
          /\ ~RequiresAuth(tcalls[k].repo)

-----------------------------------------------------------------------------
(* What processBlobs returns to ProcessTag, checked under SpecBlobsMany.   *)

\* C27: whatever number of blobs fail, processBlobs comes to its return (of
\* nil, the only value it returns once the directory is listed): while it has
\* not returned, and no extraction is still running into its timeout, some
\* step of the stage can be taken.
C27_Original ==
    \/ bmain = "returned"
    \/ \E i \in Blobs : blobDir[i].slow
    \/ ENABLED NextBlobs

-----------------------------------------------------------------------------
(* Properties of ExtractGzFile, checked under SpecGz.                      *)

\* the base name of each path without its suffix ".gz"
WithoutGz(path) ==
    IF path = <<"art", "/", "a", ".gz">> THEN <<"a">> ELSE <<"b", ".txt">>

\* the file the call was given is a gzip stream without damage
ValidGzip ==
    /\ Exists(zbefore, zpath)
    /\ zbefore[zpath].gz /\ zbefore[zpath].damage = "none"

\* dir/N: N is the name of the header, or else the base name without ".gz"
ExpectedOutput ==
    Join(zdest, IF zbefore[zpath].name # <<>> THEN zbefore[zpath].name
                ELSE WithoutGz(zpath))

\* C29: once ExtractGzFile has returned, a valid gzip file given with a
\* directory that exists has its decompressed bytes at dir/N and the call
\* has succeeded; a file of length zero has left the file system as it was,
\* and the call has succeeded.
C29_WritesDecompressedBytes ==
    zpc = "returned" =>
        /\ (ValidGzip /\ IsDir(zbefore, zdest)) =>
              /\ zerr = NoErr
              /\ Exists(zfs, ExpectedOutput)
              /\ zfs[ExpectedOutput] = PlainFile(zbefore[zpath].data)
              /\ \A q \in DOMAIN zfs \ {ExpectedOutput} :
                    Exists(zbefore, q) /\ zfs[q] = zbefore[q]
        /\ (Exists(zbefore, zpath) /\ FileSize(zbefore[zpath]) = 0) =>
              zerr = NoErr /\ zfs = zbefore

\* a valid gzip file with a name in its header has been decompressed over
\* the file that was at dir/N
C29_Witness ==
    /\ zpc = "returned" /\ ValidGzip
    /\ zbefore[zpath].name = <<"orig", ".txt">>
    /\ zbefore[zpath].data = <<7, 8>>
    /\ Exists(zbefore, ExpectedOutput)
    /\ zfs[ExpectedOutput] = PlainFile(<<7, 8>>)

-----------------------------------------------------------------------------
(* Properties of the download command, checked under SpecDownload.         *)

\* C30: with no-cache set, a run that has created the cache directory and
\* has ended, with or without an error, has called os.RemoveAll on the cache
\* directory, and the directory is gone unless that removal itself failed.
C30_CacheRemovedOnEveryPath ==
    (dpc = "returned" /\ dopts.noCache /\ dcreated) =>
        /\ dremove # "no"
        /\ dremove = "ok" => dcache = "absent"

\* a run with no-cache whose tag pull failed has ended with the cache
\* directory removed
C30_Witness ==
    /\ dpc = "returned" /\ dopts.noCache /\ dcreated
    /\ derr # NoErr /\ derr[1].msg = "failed to fetch tag: %v"
    /\ dcache = "absent"

-----------------------------------------------------------------------------
(* The goroutine of extractBlob, checked under SpecBlobs.                  *)

\* C31: the goroutine that extractBlob has started can send its result as
\* soon as its extraction is over, whether or not extractBlob still waits in
\* its select: the send never waits, so the goroutine ends.
C31_ResultSendNeverBlocks ==
    \A i \in Blobs :
        (gpc[i] = "running" /\ (blobDir[i].slow => i \in btimedout))
            => ENABLED ExtractionEnds(i)

\* extractBlob has returned on its timeout, and the goroutine has sent its
\* result afterwards and ended; nobody has received the result
C31_Witness ==
    \E i \in Blobs :
        /\ i \in btimedout
        /\ bpc[i] \in {"send", "done"}
        /\ gpc[i] = "finished"
        /\ Len(extractErr[i]) = 1

-----------------------------------------------------------------------------
(* The requests of FetchTags, checked under SpecFetchFair.                 *)

\* the reply to the k-th request was a page that holds tags
PageWithTags(k) ==
    LET reply == ServerReply(fsrv, freqs[k]) IN
    Succeeds(reply) /\ Len(reply.tags) > 0

\* the requests made so far are those of the pages 1, 2, ..., each with the
\* limit 100, and every request but the last was answered with tags
RequestsInOrder ==
    /\ \A k \in 1..Len(freqs) :
          /\ freqs[k].page = k
          /\ freqs[k].limit = 100
          /\ freqs[k].repo = frepo
    /\ \A k \in 1..(Len(freqs) - 1) : PageWithTags(k)
    /\ fpc = "returned" => (Len(freqs) > 0 /\ ~PageWithTags(Len(freqs)))

\* C32: FetchTags asks for the pages 1, 2, ... in this order, one request
\* after the other and each with the limit 100, asks for nothing after the
\* first page without tags or the first request that failed, and returns
\* once the server has answered with such a page or failure.
C32_PagesInOrderUntilEmptyOrError ==
    []RequestsInOrder /\ <>(fpc = "returned")

\* FetchTags has asked for three pages in a row and returned on a failure
C32_Witness ==
    /\ fpc = "returned"
    /\ Len(freqs) = 3
    /\ freqs[3].page = 3
    /\ ~Succeeds(ServerReply(fsrv, freqs[3]))

-----------------------------------------------------------------------------
(* processRepository and a date that does not parse, checked under Spec.   *)

\* the fetched list of task i holds a tag whose date does not parse
HasBadDate(i) == \E k \in 1..Len(rtags[i]) : BadDate(rtags[i][k])

\* the returned errors hold one that names repo for a date that did not parse
ReportedBadDate(repo) ==
    \E k \in 1..Len(errors) :
        /\ errors[k][1].arg = repo
        /\ errors[k][2].msg = "failed to parse creation date %s: %w"

\* C33: a repository whose fetched list holds a tag with a date that does
\* not parse has, once its task is over, pulled in list order the retained
\* tags before that tag and none after it, and its task has ended with the
\* error of the date, which the returned list holds for the repository.
C33_BadDateAbortsRepository ==
    \A i \in Tasks :
        (HasBadDate(i) /\ rpc[i] \in {"report", "done"}) =>
            /\ PulledTags(i) = SelectSeq(BeforeBadDate(rtags[i]), ShouldPull)
            /\ rerr[i] # NoErr
            /\ rerr[i][1].msg = "failed to parse creation date %s: %w"
            /\ mpc = "returned" => ReportedBadDate(repositories[i])

\* ProcessRepositories has returned for D, whose second tag has a date that
\* does not parse: the first tag was pulled, the third, which passes the
\* filter, was not, and D is reported
C33_Witness ==
    /\ mpc = "returned"
    /\ since = 3
    /\ \E i \in Tasks :
          /\ repositories[i] = "D"
          /\ rtags[i] = <<TagNow, TagBad, TagDay>>
          /\ ShouldPull(TagDay)
          /\ PulledTags(i) = <<TagNow>>
          /\ ReportedBadDate("D")

-----------------------------------------------------------------------------
(* The order of the steps of ProcessTag, checked under SpecTag.            *)

\* call k has created its output directory
CreatedDirectory(k) == \E d \in tdirs : d[1] = k

\* call k has extracted a blob
ExtractedBlob(k) == \E b \in BlobNames : AttemptsOf(k, b) > 0

\* the remote setup and the manifest copy of call k cannot both succeed
SetupOrCopyFails(k) ==
    \/ tcred = "broken"
    \/ RequiresAuth(tcalls[k].repo) /\ tcred # "entry"

\* C34: a ProcessTag call takes its steps in the order remote setup, copy,
\* directory creation, blob extraction and returns at the first that fails:
\* no directory is created and no blob extracted by a call whose setup or
\* copy failed, no blob is extracted by a call whose directory creation
\* failed, and only a call that reached the blobs returns without an error.
C34_StopsAtFirstFailingStep ==
    /\ \A k \in 1..Len(tcalls) :
          /\ ExtractedBlob(k) => CreatedDirectory(k)
          /\ CreatedDirectory(k) =>
                /\ ~SetupOrCopyFails(k)
                /\ Manifest(tcalls[k].tag) \subseteq tstore
    /\ \A k \in 1..Len(tlog) :
          /\ tlog[k].last \in {"setup", "copy"} =>
                tlog[k].err # NoErr /\ ~CreatedDirectory(k) /\ ~ExtractedBlob(k)
          /\ tlog[k].last = "mkdir" => tlog[k].err # NoErr /\ ~ExtractedBlob(k)
          /\ tlog[k].err = NoErr => tlog[k].last = "blobs"

\* on a store that holds the blobs of an earlier call, a call has returned
\* with the error of its copy and has created no directory and extracted
\* nothing
C34_Witness ==
    /\ Len(tlog) = 2
    /\ tlog[1].last = "blobs"
    /\ tlog[2].last = "copy" /\ tlog[2].err # NoErr
    /\ tstore # {}
    /\ ~CreatedDirectory(2) /\ ~ExtractedBlob(2)

-----------------------------------------------------------------------------
(* The uncompress step of the download command, checked under              *)
(* SpecUncompress.                                                          *)

\* C35: once the uncompress step is through with a .gz file that holds
\* bytes, the file it decompresses to is there with the whole decompressed
\* content, or the .gz file is still there.
C35_Original ==
    (zpc = "removed" /\ FileSize(zbefore[zpath]) > 0) =>
        \/ Exists(zfs, zpath)
        \/ /\ zbefore[zpath].gz
           /\ Exists(zfs, ExpectedOutput)
           /\ zfs[ExpectedOutput] = PlainFile(zbefore[zpath].data)

-----------------------------------------------------------------------------
(* Confinement of the extraction, checked under SpecExtractNames.          *)

\* C36: whatever the names of the entries, extractTarGz creates and writes
\* nothing outside the destination directory: every path outside it stays
\* as it was before the call, and every file written lies inside.
C36_Original ==
    /\ \A q \in DOMAIN xfs : IsOutside(q) => xfs[q] = xbefore[q]
    /\ \A t \in Calls : \A q \in xwritten[t] : ~IsOutside(q)

-----------------------------------------------------------------------------
(* The end of a scan on a failure, checked under SpecScan.                 *)

\* the paths of the nodes before the k-th that a pattern matches
RequiredBefore(k) ==
    { stree[j].path : j \in { i \in 1..(k - 1) : isRequiredFile(spatterns, stree[i].path) } }

\* the scan has returned the error of the node it was at
FailedAtNode ==
    /\ spc = "returned"
    /\ sidx <= Len(stree)
    /\ serr[1].arg = PathText(stree[sidx].path)

\* C37: the step of the walk that fails ends processExtractedFiles with the
\* error of the path it was at and adds nothing to FilesPathMap, which then
\* holds the entries of the matching paths visited before and no other; no
\* step of a scan removes or changes an entry.
C37_ScanStopsAtFirstFailure ==
    /\ [](serr # NoErr => (FailedAtNode /\ DOMAIN smap = RequiredBefore(sidx)))
    /\ [][ /\ (serr = NoErr /\ serr' # NoErr) => (smap' = smap /\ sidx' = sidx)
           /\ \A key \in DOMAIN smap : key \in DOMAIN smap' /\ smap'[key] = smap[key]
         ]_vars

\* a scan that has stored an entry fails at a path while nodes are left
C37_Witness ==
    /\ spc = "returned" /\ serr # NoErr
    /\ smap # <<>>
    /\ sidx < Len(stree)

-----------------------------------------------------------------------------
(* utils.ParseRepoAndTag, checked under SpecParse.                         *)

HasColon(str) == \E k \in 1..Len(str) : str[k] = ":"

StartsWithQuay(str) == str # <<>> /\ Head(str) = "quay.io/"

\* C38: ParseRepoAndTag fails, with two empty strings, on a flag that does
\* not start with quay.io/ or has no ':' after it and on no other; the
\* repository and the tag it returns make up the flag again as
\* quay.io/<repository>:<tag>, and the repository holds no ':'.
C38_SplitsAtFirstColon ==
    ppc = "returned" =>
        /\ pout.err # NoErr <=> ~(StartsWithQuay(pflag) /\ HasColon(Tail(pflag)))
        /\ pout.err # NoErr => (pout.repo = <<>> /\ pout.tag = <<>>)
        /\ pout.err = NoErr =>
            /\ pflag = <<"quay.io/">> \o pout.repo \o <<":">> \o pout.tag
            /\ ~HasColon(pout.repo)

\* a flag with two ':' has been parsed: the tag holds the second
C38_Witness ==
    /\ ppc = "returned" /\ pout.err = NoErr
    /\ pout.repo # <<>>
    /\ HasColon(pout.tag)

-----------------------------------------------------------------------------
(* The classification of CollectTestFilesData, checked under SpecCollect.  *)

\* the map holds a file of the name
HasFile(name) == \E key \in DOMAIN cfpm : cfpm[key].Filename = name

\* the map holds a file of the name that is not empty
HasContent(name) ==
    \E key \in DOMAIN cfpm : cfpm[key].Filename = name /\ cfpm[key].Content # ""

\* the failure type by the priority of the files in the map
PriorityType ==
    IF HasFile(junitFilename) THEN TestCaseFailure
    ELSE IF HasContent(e2eTestRunLogFilename) THEN TestRunFailure
    ELSE IF HasContent(clusterProvisionLogFilename) THEN ClusterCreationFailure
    ELSE OtherFailure

\* C39: the failure type CollectTestFilesData sets is the one the files of
\* the map give by the fixed priority (JUnit file, E2E log with content,
\* cluster provision log with content, other), in whatever order the map
\* is ranged over.
C39_Original == cpc = "returned" => ctype = PriorityType

=============================================================================
